---- MODULE Spec2Model ----
(***************************************************************************)
(* Unified AI inference proxy (src/ai-inference-proxy/app.py).             *)
(*                                                                         *)
(* The model follows the asyncio structure of the service: an action is    *)
(* the code one coroutine runs between two suspension points (an awaited   *)
(* HTTP call to the local runtime or to the cloud provider).  Requests are *)
(* handled by NumReq concurrent handler slots, next to the health endpoint; *)
(* the catalog cache, its timestamp and the configuration are module-level *)
(* state shared by all of them.                                            *)
(*                                                                         *)
(* A model identifier is a sequence of symbols; the symbol ":" is the tag  *)
(* separator, every other symbol stands for a run of characters without a  *)
(* colon.  <<"llama3", ":", "latest">> is the identifier "llama3:latest".  *)
(***************************************************************************)
EXTENDS Integers, Sequences, FiniteSets, TLC

(***************************************************************************)
(* Bounds of the model.                                                    *)
(***************************************************************************)
NumReq == 1
MaxTicks == 1

(***************************************************************************)
(* Program constants.                                                      *)
(***************************************************************************)
OLLAMA_CACHE_TTL == 60
DEFAULT_BACKEND == "auto"

Requests == 1..NumReq

\* The clock is observed at multiples of the time-to-live: a cache entry is
\* either of age 0 (fresh) or of an age that has reached the time-to-live.
TickStep == OLLAMA_CACHE_TTL

(***************************************************************************)
(* Input domains.                                                          *)
(***************************************************************************)
L3Latest == <<"llama3", ":", "latest">>
L38b == <<"llama3", ":", "8b">>
Gpt4 == <<"gpt4">>

RequestModels == {L38b, Gpt4}

\* What GET /api/tags of the local runtime may list ("name" of each
\* descriptor, in listing order).
Listings == { <<>>, <<L3Latest>>, <<L3Latest, L38b>> }

BackendParams == {"local", "cloud", "auto"} \cup {DEFAULT_BACKEND}

\* An HTTP exchange ends with a response (a status code and a body text) or
\* with a transport-level fault (an httpx exception: connection refused,
\* timeout).
Fault == [kind |-> "fault", code |-> 0, text |-> "", listing |-> <<>>]
StatusResp(c, t) == [kind |-> "status", code |-> c, text |-> t, listing |-> <<>>]
Pending == [kind |-> "pending", code |-> 0, text |-> "", listing |-> <<>>]

TagsResponses ==
    { [kind |-> "status", code |-> 200, text |-> "tags", listing |-> l] : l \in Listings }
    \cup { StatusResp(503, "tags unavailable"), Fault }

LocalResponses ==
    { StatusResp(200, "ollama completion"),
      StatusResp(404, "ollama: model not found"),
      Fault }

CloudResponses ==
    { StatusResp(200, "openrouter completion"),
      StatusResp(503, "openrouter: unavailable"),
      Fault }

VARIABLES
    now,                     \* datetime.now(), in seconds
    OPENROUTER_API_KEY,      \* TRUE iff the cloud credential is configured
    ollama_models_cache,     \* function: cache key -> model descriptor
    ollama_cache_timestamp,  \* <<>> for None, <<t>> for the time of the last refresh
    startup,                 \* position of startup_event
    health,                  \* position of the health_check handler
    pc,                      \* position of each request handler
    chat_request,            \* the request body of each handler
    backend,                 \* the backend query parameter of each handler
    selected_backend,        \* the handler's local variable selected_backend
    lookups,                 \* per request: calls of get_ollama_models
    calls,                   \* per request: the outbound HTTP calls, in order, each
                             \* backend call with the answer it got
    metrics,                 \* per request: the metric samples emitted, in order
    outcome,                 \* per request: what the caller receives
    relay,                   \* position of the generator handle_ollama_stream
    full_content,            \* the generator's local variable full_content
    received,                \* what response.aiter_lines() has produced, in order
    events,                  \* what the generator has yielded, in order
    upstream,                \* the lines the cloud provider has streamed, in order
    health_response,         \* backends of the last HealthResponse returned, and how
                             \* the listing call made for it ended
    list_models,             \* the list_models handler: position, filter, models
    translated,              \* a translator call: function, argument, result
    catalog_build,           \* get_ollama_models: a listing and the dictionary built from it
    http_client,             \* the global http_client: <<>> for None, <<i>> for instance i
    callers,                 \* the callers of get_http_client: positions, instances used
    proxy,                   \* the standalone cloud proxy's chat_completions handler
    tool,                    \* an operation of the retrieval tool
    manager                  \* the model manager: registry, registry file, a download

vars == << now, OPENROUTER_API_KEY, ollama_models_cache, ollama_cache_timestamp,
           startup, health, pc, chat_request, backend, selected_backend, lookups,
           calls, metrics, outcome, relay, full_content, received, events,
           upstream, health_response, list_models, translated,
           catalog_build, http_client, callers, proxy, tool, manager >>

relayVars == << relay, full_content, received, events >>
auxVars == << upstream, health_response, list_models, translated >>
extVars == << catalog_build, http_client, callers, proxy, tool, manager >>

catalogVars == << ollama_models_cache, ollama_cache_timestamp >>
requestVars == << pc, chat_request, backend, selected_backend, lookups,
                  calls, metrics, outcome >>

(***************************************************************************)
(* Pure helpers.                                                           *)
(***************************************************************************)

\* str.split(":")[0]: the part of an identifier before its first colon.
SplitColon0(name) ==
    LET colons == { i \in 1..Len(name) : name[i] = ":" }
    IN  IF colons = {} THEN name
        ELSE SubSeq(name, 1, (CHOOSE i \in colons : \A j \in colons : i <= j) - 1)

\* BuildModels as it would be if only the full names were stored.
BuildModelsFullNamesOnly(listing) ==
    [ k \in { listing[i] : i \in 1..Len(listing) } |-> [name |-> k] ]

\* The dictionary get_ollama_models builds from a listing: for each
\* descriptor in order, models[base_name] = model, then models[model_name] =
\* model (a later assignment to the same key overwrites the earlier one).
RECURSIVE BuildModels(_)
BuildModels(listing) ==
    IF listing = <<>> THEN <<>>
    ELSE LET n     == Len(listing)
             model == [name |-> listing[n]]
             prev  == BuildModels(SubSeq(listing, 1, n - 1))
         IN  (listing[n] :> model) @@ (SplitColon0(listing[n]) :> model) @@ prev

IsOk(resp) == resp.kind = "status" /\ resp.code = 200

\* get_ollama_models, the cache check: a timestamp is set, the cache is
\* younger than the time-to-live and the cache dictionary is not empty.
CacheFresh ==
    /\ ollama_cache_timestamp # <<>>
    /\ now - ollama_cache_timestamp[1] < OLLAMA_CACHE_TTL
    /\ DOMAIN ollama_models_cache # {}

\* RefreshedCache as it would be if the refresh wrote the new entries into
\* the shared dictionary, on top of the entries it holds.
RefreshedCacheInPlace(resp) ==
    IF IsOk(resp) THEN BuildModels(resp.listing) @@ ollama_models_cache
    ELSE ollama_models_cache

\* RefreshedCache as it would be if a failed refresh emptied the cache.
RefreshedCacheClearsOnFailure(resp) ==
    IF IsOk(resp) THEN BuildModels(resp.listing) ELSE <<>>

\* RefreshedCache as it would be if a listing of no model left the cache as
\* it was.
RefreshedCacheKeepsOnEmptyListing(resp) ==
    IF IsOk(resp) /\ resp.listing # <<>> THEN BuildModels(resp.listing)
    ELSE ollama_models_cache

\* get_ollama_models after the listing call came back with resp: the new
\* cache, the new timestamp and the list of identifiers returned.
RefreshedCache(resp) ==
    IF IsOk(resp) THEN BuildModels(resp.listing) ELSE ollama_models_cache

RefreshedTimestamp(resp) ==
    IF IsOk(resp) THEN <<now>> ELSE ollama_cache_timestamp

RefreshResult(resp) ==
    IF IsOk(resp) THEN DOMAIN BuildModels(resp.listing) ELSE {}

\* detect_model_backend, given what get_ollama_models returned.
DetectModelBackend(model_name, ollama_models) ==
    IF model_name \in ollama_models THEN "local"
    ELSE IF SplitColon0(model_name) \in ollama_models THEN "local"
    ELSE "cloud"

\* transform_ollama_request: the body sent to POST /api/chat.
TransformOllamaRequest(req) ==
    [model |-> SplitColon0(req.model), stream |-> req.stream]

\* chat_request.dict(exclude_none=True): the body sent to the cloud provider.
CloudRequest(req) ==
    [model |-> req.model, stream |-> req.stream]

Call(to, body) ==
    [to |-> to, model |-> body.model, stream |-> body.stream, resp |-> Pending]

TagsCall == [to |-> "tags", model |-> <<>>, stream |-> FALSE, resp |-> Pending]

\* The reply recorded on the last call of a call sequence: its kind, status
\* code and body text.
Answered(cs, resp) == [cs EXCEPT ![Len(cs)].resp = [resp EXCEPT !.listing = <<>>]]

Sample(m, b, l) == [metric |-> m, backend |-> b, label |-> l]

NoData == [src |-> "none", model |-> <<>>, text |-> ""]

\* transform_ollama_response: the canonical response built from the local
\* runtime's answer.
TransformOllamaResponse(resp, model_name) ==
    [src |-> "ollama", model |-> model_name, text |-> resp.text]

\* response.json() of the cloud provider's answer, passed through.
CloudResponseJson(resp) ==
    [src |-> "openrouter", model |-> <<>>, text |-> resp.text]

NoOutcome == [kind |-> "none", status |-> 0, detail |-> "", model |-> <<>>, data |-> NoData]

\* raise HTTPException(status_code, detail); named is the model identifier the
\* detail text contains (<<>> when it contains none).
HttpError(status, detail, named) ==
    [kind |-> "error", status |-> status, detail |-> detail, model |-> named, data |-> NoData]

\* return response_data (a 200 JSON response).
JsonResponse(data) ==
    [kind |-> "json", status |-> 200, detail |-> "", model |-> <<>>, data |-> data]

\* return StreamingResponse(...): a 200 text/event-stream response.
StreamResponse ==
    [kind |-> "stream", status |-> 200, detail |-> "", model |-> <<>>, data |-> NoData]

(***************************************************************************)
(* chat_completions: the handler's code between suspension points, as      *)
(* functions from the handler's state to its next state.                   *)
(***************************************************************************)

\* The state of one handler: its position, its selected_backend, the calls it
\* issued, the metric samples it emitted and what its caller has received.
Handler(p, sb, cs, ms, oc) ==
    [pc |-> p, selected_backend |-> sb, calls |-> cs, metrics |-> ms, outcome |-> oc]

KeyNotConfigured == HttpError(500, "OpenRouter API key not configured", <<>>)

\* selected_backend = backend or DEFAULT_BACKEND
BackendOrDefault(b) == IF b = "" THEN DEFAULT_BACKEND ELSE b

\* Dispatch as it would be if the missing credential were reported as "model
\* not found" whenever the request is not a streaming one.
DispatchNotFoundWhenUnconfigured(req, sb, cs, ms) ==
    IF req.stream
    THEN IF sb = "local"
         THEN Handler("local_stream_start", sb, cs, ms, StreamResponse)
         ELSE IF ~OPENROUTER_API_KEY
              THEN Handler("failed", sb, cs, ms, KeyNotConfigured)
              ELSE Handler("cloud_stream_wait", sb,
                           Append(cs, Call("cloud", CloudRequest(req))), ms, NoOutcome)
    ELSE IF sb = "local"
         THEN Handler("local_wait", sb,
                      Append(cs, Call("local", TransformOllamaRequest(req))), ms, NoOutcome)
         ELSE IF ~OPENROUTER_API_KEY
              THEN Handler("failed", sb, cs,
                           Append(ms, Sample("FALLBACK_COUNT", "local", "cloud")),
                           HttpError(404, "Model not found locally and cloud not configured",
                                     req.model))
              ELSE Handler("cloud_wait", sb,
                           Append(cs, Call("cloud", CloudRequest(req))), ms, NoOutcome)

\* From the branch on chat_request.stream to the first awaited backend call
\* (or to the exception raised before any call).
Dispatch(req, sb, cs, ms) ==
    IF req.stream
    THEN IF sb = "local"
         THEN Handler("local_stream_start", sb, cs, ms, StreamResponse)
         ELSE IF ~OPENROUTER_API_KEY
              THEN Handler("failed", sb, cs, ms, KeyNotConfigured)
              ELSE Handler("cloud_stream_wait", sb,
                           Append(cs, Call("cloud", CloudRequest(req))), ms, NoOutcome)
    ELSE IF sb = "local"
         THEN Handler("local_wait", sb,
                      Append(cs, Call("local", TransformOllamaRequest(req))), ms, NoOutcome)
         ELSE IF ~OPENROUTER_API_KEY
              THEN IF sb = "cloud"
                   THEN Handler("failed", sb, cs, ms, KeyNotConfigured)
                   ELSE Handler("failed", sb, cs,
                                Append(ms, Sample("FALLBACK_COUNT", "local", "cloud")),
                                HttpError(404, "Model not found locally and cloud not configured",
                                          req.model))
              ELSE Handler("cloud_wait", sb,
                           Append(cs, Call("cloud", CloudRequest(req))), ms, NoOutcome)

\* SelectManual as it would be if an explicit backend were still checked
\* against the catalog.
SelectManualDetects(req, sb, cs, ms) ==
    LET found == DetectModelBackend(req.model, DOMAIN ollama_models_cache)
    IN  Dispatch(req, found, cs, Append(ms, Sample("BACKEND_SELECTION", found, "manual")))

\* An explicit backend: the selection metric, then the dispatch.
SelectManual(req, sb, cs, ms) ==
    Dispatch(req, sb, cs, Append(ms, Sample("BACKEND_SELECTION", sb, "manual")))

\* SelectAuto as it would be if the selection metric were labelled with the
\* override instead of the detected backend.
SelectAutoRecordsOverride(req, ollama_models, cs, ms) ==
    LET sb == DetectModelBackend(req.model, ollama_models)
    IN  Dispatch(req, sb, cs, Append(ms, Sample("BACKEND_SELECTION", "auto", "auto")))

\* backend "auto", once get_ollama_models has returned ollama_models:
\* detect_model_backend, the selection metric, then the dispatch.
SelectAuto(req, ollama_models, cs, ms) ==
    LET sb == DetectModelBackend(req.model, ollama_models)
    IN  Dispatch(req, sb, cs, Append(ms, Sample("BACKEND_SELECTION", sb, "auto")))

\* SuccessMetrics as it would be if every success were booked on the cloud
\* backend.
SuccessMetricsOnCloud(ms, sb) ==
    ms \o << Sample("REQUEST_DURATION", "cloud", "observed"),
             Sample("REQUEST_COUNT", "cloud", "success") >>

\* The metrics recorded for a successful completion.
SuccessMetrics(ms, sb) ==
    ms \o << Sample("REQUEST_DURATION", sb, "observed"),
             Sample("REQUEST_COUNT", sb, "success") >>

\* except Exception: the error counter and a generic 500.
InternalError(sb, cs, ms) ==
    Handler("failed", sb, cs, Append(ms, Sample("REQUEST_COUNT", sb, "error")),
            HttpError(500, "Internal server error", <<>>))

\* AfterLocal as it would be if a non-success status of the local runtime
\* were answered by calling the local runtime again.
AfterLocalRetries(req, p, sb, cs, ms, resp) ==
    IF resp.kind = "fault" THEN InternalError(sb, Answered(cs, resp), ms)
    ELSE IF resp.code # 200
         THEN Handler(p, sb,
                      Append(Answered(cs, resp), Call("local", TransformOllamaRequest(req))),
                      ms, NoOutcome)
         ELSE Handler("done", sb, Answered(cs, resp), SuccessMetrics(ms, sb),
                      JsonResponse(TransformOllamaResponse(resp, req.model)))

\* AfterLocal as it would be if a non-success status of the local runtime
\* ended in the generic handler, like any other exception.
AfterLocalGenericError(req, p, sb, cs, ms, resp) ==
    IF resp.kind = "fault" \/ resp.code # 200
    THEN InternalError(sb, Answered(cs, resp), ms)
    ELSE Handler("done", sb, Answered(cs, resp), SuccessMetrics(ms, sb),
                 JsonResponse(TransformOllamaResponse(resp, req.model)))

\* handle_ollama_request resumed with the local runtime's answer, and the rest
\* of chat_completions after it.  p is the handler's position: "local_wait"
\* for the call of the local branch, "fallback_wait" for the call of the
\* fallback branch (which then sets selected_backend to "local").
AfterLocal(req, p, sb, cs, ms, resp) ==
    IF resp.kind = "fault" THEN InternalError(sb, Answered(cs, resp), ms)
    ELSE IF resp.code # 200
         THEN Handler("failed", sb, Answered(cs, resp), ms,
                      HttpError(resp.code, resp.text, <<>>))
         ELSE LET sb2 == IF p = "fallback_wait" THEN "local" ELSE sb
              IN  Handler("done", sb2, Answered(cs, resp), SuccessMetrics(ms, sb2),
                          JsonResponse(TransformOllamaResponse(resp, req.model)))

\* AfterCloud as it would be if the fallback to the local runtime were taken
\* on every failed cloud call, whatever the selection.
AfterCloudAlwaysFallsBack(req, sb, cs, ms, resp) ==
    IF resp.kind = "fault" THEN InternalError(sb, Answered(cs, resp), ms)
    ELSE IF resp.code # 200
         THEN Handler("fallback_wait", sb,
                      Append(Answered(cs, resp), Call("local", TransformOllamaRequest(req))),
                      Append(ms, Sample("FALLBACK_COUNT", "cloud", "local")),
                      NoOutcome)
         ELSE Handler("done", sb, Answered(cs, resp), SuccessMetrics(ms, sb),
                      JsonResponse(CloudResponseJson(resp)))

\* AfterCloud as it would be if a failed cloud call sent the handler back to
\* the catalog for a new selection.
AfterCloudReselects(req, sb, cs, ms, resp) ==
    IF resp.kind = "fault" THEN InternalError(sb, Answered(cs, resp), ms)
    ELSE IF resp.code # 200
         THEN Handler("tags_wait", sb, Append(Answered(cs, resp), TagsCall), ms, NoOutcome)
         ELSE Handler("done", sb, Answered(cs, resp), SuccessMetrics(ms, sb),
                      JsonResponse(CloudResponseJson(resp)))

\* handle_openrouter_request resumed with the cloud provider's answer, and the
\* rest of chat_completions after it.
AfterCloud(req, sb, cs, ms, resp) ==
    IF resp.kind = "fault" THEN InternalError(sb, Answered(cs, resp), ms)
    ELSE IF resp.code # 200
         THEN IF sb = "auto"
              THEN Handler("fallback_wait", sb,
                           Append(Answered(cs, resp), Call("local", TransformOllamaRequest(req))),
                           Append(ms, Sample("FALLBACK_COUNT", "cloud", "local")),
                           NoOutcome)
              ELSE Handler("failed", sb, Answered(cs, resp), ms,
                           HttpError(resp.code, resp.text, <<>>))
         ELSE Handler("done", sb, Answered(cs, resp), SuccessMetrics(ms, sb),
                      JsonResponse(CloudResponseJson(resp)))

\* AfterCloudStream as it would be if a failed cloud stream fell back to the
\* local stream.
AfterCloudStreamFallsBack(sb, cs, ms, resp) ==
    IF resp.kind = "fault" \/ resp.code # 200
    THEN Handler("local_stream_start", "local", Answered(cs, resp),
                 Append(ms, Sample("FALLBACK_COUNT", "cloud", "local")), StreamResponse)
    ELSE Handler("cloud_relay", sb, Answered(cs, resp), ms, StreamResponse)

\* The cloud streaming branch resumed with the provider's answer.  The branch
\* is outside the handler's try block: a fault is answered by the framework's
\* own 500 "Internal Server Error", not by the handler's "Internal server
\* error".
AfterCloudStream(sb, cs, ms, resp) ==
    IF resp.kind = "fault"
    THEN Handler("failed", sb, Answered(cs, resp), ms,
                 HttpError(500, "Internal Server Error", <<>>))
    ELSE IF resp.code # 200
         THEN Handler("failed", sb, Answered(cs, resp), ms,
                      HttpError(resp.code, resp.text, <<>>))
         ELSE Handler("cloud_relay", sb, Answered(cs, resp), ms, StreamResponse)

\* handle_ollama_stream resumed with the local runtime's answer.  The generator
\* runs after the 200 text/event-stream response has begun: an exception
\* (the HTTPException of a non-200 answer included) ends the body, the status
\* already sent stays and the exception's detail does not reach the caller.
AfterOllamaStream(sb, cs, ms, resp) ==
    IF resp.kind = "fault" \/ resp.code # 200
    THEN Handler("aborted", sb, Answered(cs, resp), ms,
                 [StreamResponse EXCEPT !.kind = "stream_aborted"])
    ELSE Handler("local_relay", sb, Answered(cs, resp), ms, StreamResponse)

(***************************************************************************)
(* State machine.                                                          *)
(***************************************************************************)

NoRequest == [model |-> <<>>, stream |-> FALSE]

\* No HealthResponse has been returned yet.  probe tells how the listing call
\* of the health check ended ("" when it made none).
NoHealthResponse == [ollama |-> "", openrouter |-> "", probe |-> ""]

\* The list_models handler is not running.
ListModelsIdle == [pc |-> "idle", backend |-> "", models |-> <<>>]

\* No translator call has been made.
NoTranslation == [fn |-> "", arg |-> <<>>, result |-> <<>>]

\* No dictionary has been built from a listing.
NoCatalogBuild == [built |-> FALSE, listing |-> <<>>, models |-> <<>>]

\* No get_http_client caller is modelled.
NoCallers == [created |-> 0, closed |-> {}, lifespan |-> "none", handlers |-> <<>>]

\* The standalone cloud proxy handles no request.
ProxyIdle == [pc |-> "idle", model |-> <<>>, metrics |-> <<>>, outcome |-> NoOutcome]

\* No operation of the retrieval tool has been invoked.
ToolIdle == [pc |-> "idle", op |-> "", emitter |-> FALSE, events |-> <<>>,
             pending |-> <<>>, result |-> <<>>, exchange |-> <<>>]

\* The model manager after construction, with no registry file on disk: the
\* registry and the file's content as functions from model names to entries,
\* no download under way.
ManagerIdle == [pc |-> "idle", model_name |-> <<>>, model_registry |-> <<>>,
                registry_file |-> <<>>, pull_status |-> 0, stream_ended |-> FALSE,
                lines |-> 0, metrics |-> <<>>, returned |-> <<>>]

Init ==
    /\ now = 0
    /\ OPENROUTER_API_KEY \in BOOLEAN
    /\ ollama_models_cache = <<>>
    /\ ollama_cache_timestamp = <<>>
    /\ startup = "init"
    /\ health = "idle"
    /\ pc = [r \in Requests |-> "idle"]
    /\ chat_request = [r \in Requests |-> NoRequest]
    /\ backend = [r \in Requests |-> ""]
    /\ selected_backend = [r \in Requests |-> ""]
    /\ lookups = [r \in Requests |-> 0]
    /\ calls = [r \in Requests |-> <<>>]
    /\ metrics = [r \in Requests |-> <<>>]
    /\ outcome = [r \in Requests |-> NoOutcome]
    /\ relay = "none"
    /\ full_content = <<>>
    /\ received = <<>>
    /\ events = <<>>
    /\ upstream = <<>>
    /\ health_response = NoHealthResponse
    /\ list_models = ListModelsIdle
    /\ translated = NoTranslation
    /\ catalog_build = NoCatalogBuild
    /\ http_client = <<>>
    /\ callers = NoCallers
    /\ proxy = ProxyIdle
    /\ tool = ToolIdle
    /\ manager = ManagerIdle

\* The handler r moves to the state h.
Becomes(r, h) ==
    /\ pc' = [pc EXCEPT ![r] = h.pc]
    /\ selected_backend' = [selected_backend EXCEPT ![r] = h.selected_backend]
    /\ calls' = [calls EXCEPT ![r] = h.calls]
    /\ metrics' = [metrics EXCEPT ![r] = h.metrics]
    /\ outcome' = [outcome EXCEPT ![r] = h.outcome]

\* datetime.now() advances.
Tick ==
    /\ now < MaxTicks * TickStep
    /\ now' = now + TickStep
    /\ UNCHANGED << relayVars, auxVars, extVars, OPENROUTER_API_KEY, catalogVars, startup, health, requestVars >>

\* startup_event: get_ollama_models finds no timestamp and asks the local
\* runtime for its models.
StartupLookup ==
    /\ startup = "init"
    /\ startup' = "tags_wait"
    /\ UNCHANGED << relayVars, auxVars, extVars, now, OPENROUTER_API_KEY, catalogVars, health, requestVars >>

\* startup_event resumed with the listing answer; the service then accepts
\* requests.
StartupTagsResponse(resp) ==
    /\ startup = "tags_wait"
    /\ ollama_models_cache' = RefreshedCache(resp)
    /\ ollama_cache_timestamp' = RefreshedTimestamp(resp)
    /\ startup' = "running"
    /\ UNCHANGED << relayVars, auxVars, extVars, now, OPENROUTER_API_KEY, health, requestVars >>

\* GET /health: get_ollama_models answers from the fresh cache, or asks the
\* local runtime for its models.
HealthCheck ==
    /\ startup = "running"
    /\ health = "idle"
    /\ health' = IF CacheFresh THEN "idle" ELSE "tags_wait"
    /\ UNCHANGED << relayVars, auxVars, extVars, now, OPENROUTER_API_KEY, catalogVars, startup, requestVars >>

\* health_check resumed with the listing answer: get_ollama_models catches
\* every failure itself and returns a list.
HealthTagsResponse(resp) ==
    /\ health = "tags_wait"
    /\ ollama_models_cache' = RefreshedCache(resp)
    /\ ollama_cache_timestamp' = RefreshedTimestamp(resp)
    /\ health' = "idle"
    /\ UNCHANGED << relayVars, auxVars, extVars, now, OPENROUTER_API_KEY, startup, requestVars >>

\* A request arrives, POST /chat/completions?backend=b with a body naming
\* model m and the streaming flag s, and chat_completions runs from its first
\* line to its first suspension.
Receive(r, m, b, s) ==
    /\ startup = "running"
    /\ pc[r] = "idle"
    /\ chat_request' = [chat_request EXCEPT ![r] = [model |-> m, stream |-> s]]
    /\ backend' = [backend EXCEPT ![r] = b]
    /\ LET req == [model |-> m, stream |-> s]
           sb  == BackendOrDefault(b)
       IN  IF sb = "auto"
           THEN /\ lookups' = [lookups EXCEPT ![r] = @ + 1]
                /\ IF CacheFresh
                   THEN Becomes(r, SelectAuto(req, DOMAIN ollama_models_cache,
                                              calls[r], metrics[r]))
                   ELSE Becomes(r, Handler("tags_wait", sb, Append(calls[r], TagsCall),
                                           metrics[r], NoOutcome))
           ELSE /\ lookups' = lookups
                /\ Becomes(r, SelectManual(req, sb, calls[r], metrics[r]))
    /\ UNCHANGED << relayVars, auxVars, extVars, now, OPENROUTER_API_KEY, catalogVars, startup, health >>

\* get_ollama_models resumed with the listing answer, then detection and
\* dispatch.
TagsResponse(r, resp) ==
    /\ pc[r] = "tags_wait"
    /\ ollama_models_cache' = RefreshedCache(resp)
    /\ ollama_cache_timestamp' = RefreshedTimestamp(resp)
    /\ Becomes(r, SelectAuto(chat_request[r], RefreshResult(resp),
                             Answered(calls[r], resp), metrics[r]))
    /\ UNCHANGED << relayVars, auxVars, extVars, now, OPENROUTER_API_KEY, startup, health, chat_request, backend, lookups >>

\* The local runtime answers POST /api/chat (non-streaming).
LocalResponse(r, resp) ==
    /\ pc[r] \in {"local_wait", "fallback_wait"}
    /\ Becomes(r, AfterLocal(chat_request[r], pc[r], selected_backend[r],
                             calls[r], metrics[r], resp))
    /\ UNCHANGED << relayVars, auxVars, extVars, now, OPENROUTER_API_KEY, catalogVars, startup, health, chat_request,
                    backend, lookups >>

\* The cloud provider answers POST /chat/completions (non-streaming).
CloudResponse(r, resp) ==
    /\ pc[r] = "cloud_wait"
    /\ Becomes(r, AfterCloud(chat_request[r], selected_backend[r],
                             calls[r], metrics[r], resp))
    /\ UNCHANGED << relayVars, auxVars, extVars, now, OPENROUTER_API_KEY, catalogVars, startup, health, chat_request,
                    backend, lookups >>

\* The cloud provider answers the streaming POST /chat/completions.
CloudStreamResponse(r, resp) ==
    /\ pc[r] = "cloud_stream_wait"
    /\ Becomes(r, AfterCloudStream(selected_backend[r], calls[r], metrics[r], resp))
    /\ UNCHANGED << relayVars, auxVars, extVars, now, OPENROUTER_API_KEY, catalogVars, startup, health, chat_request,
                    backend, lookups >>

\* handle_ollama_stream starts: the streaming POST /api/chat is issued.
OllamaStreamOpen(r) ==
    /\ pc[r] = "local_stream_start"
    /\ Becomes(r, Handler("local_stream_wait", selected_backend[r],
                          Append(calls[r], Call("local", TransformOllamaRequest(chat_request[r]))),
                          metrics[r], outcome[r]))
    /\ UNCHANGED << relayVars, auxVars, extVars, now, OPENROUTER_API_KEY, catalogVars, startup, health, chat_request,
                    backend, lookups >>

\* The local runtime answers the streaming POST /api/chat.
OllamaStreamResponse(r, resp) ==
    /\ pc[r] = "local_stream_wait"
    /\ Becomes(r, AfterOllamaStream(selected_backend[r], calls[r], metrics[r], resp))
    /\ UNCHANGED << relayVars, auxVars, extVars, now, OPENROUTER_API_KEY, catalogVars, startup, health, chat_request,
                    backend, lookups >>

\* Positions at which the response is complete, or is a streaming body that
\* is being relayed.
Terminal == {"done", "failed", "aborted", "local_relay", "cloud_relay"}

\* The response has been sent to its end; the per-request state is discarded.
Forget(r) ==
    /\ pc[r] \in Terminal
    /\ pc' = [pc EXCEPT ![r] = "idle"]
    /\ chat_request' = [chat_request EXCEPT ![r] = NoRequest]
    /\ backend' = [backend EXCEPT ![r] = ""]
    /\ selected_backend' = [selected_backend EXCEPT ![r] = ""]
    /\ lookups' = [lookups EXCEPT ![r] = 0]
    /\ calls' = [calls EXCEPT ![r] = <<>>]
    /\ metrics' = [metrics EXCEPT ![r] = <<>>]
    /\ outcome' = [outcome EXCEPT ![r] = NoOutcome]
    /\ UNCHANGED << relayVars, auxVars, extVars, now, OPENROUTER_API_KEY, catalogVars, startup, health >>

Next ==
    \/ Tick
    \/ StartupLookup
    \/ \E resp \in TagsResponses : StartupTagsResponse(resp)
    \/ HealthCheck
    \/ \E resp \in TagsResponses : HealthTagsResponse(resp)
    \/ \E r \in Requests, m \in RequestModels, b \in BackendParams, s \in BOOLEAN :
           Receive(r, m, b, s)
    \/ \E r \in Requests, resp \in TagsResponses : TagsResponse(r, resp)
    \/ \E r \in Requests, resp \in LocalResponses : LocalResponse(r, resp)
    \/ \E r \in Requests, resp \in CloudResponses : CloudResponse(r, resp)
    \/ \E r \in Requests, resp \in CloudResponses : CloudStreamResponse(r, resp)
    \/ \E r \in Requests : OllamaStreamOpen(r)
    \/ \E r \in Requests, resp \in LocalResponses : OllamaStreamResponse(r, resp)
    \/ \E r \in Requests : Forget(r)

Spec == Init /\ [][Next]_vars

(***************************************************************************)
(* handle_ollama_stream: the relay of the local runtime's streamed answer. *)
(*                                                                         *)
(* A text is a sequence of characters.  The relay modelled is the one of   *)
(* handler 1, after the streaming POST /api/chat was answered with status  *)
(* 200; an action is one turn of `async for line in                        *)
(* response.aiter_lines()`.                                                *)
(***************************************************************************)
MaxLines == 3

\* The texts a backend event may carry in message.content.
Texts == { <<>>, <<"H">>, <<"H", "i">>, <<"H", "i", "!">>, <<"i">>, <<"!">> }

\* A line of the response body.  kind "empty": the empty string; "invalid":
\* a text json.loads rejects; "value": a JSON text that is not an object
\* (such as [] or null); "object": a JSON object, with has_content telling
\* whether it holds message.content, done its "done" member (false when
\* absent), and the two counters (0 when absent).
Line(k, h, c, d, p, e) ==
    [kind |-> k, has_content |-> h, content |-> c, done |-> d,
     prompt_eval_count |-> p, eval_count |-> e]

EmptyLine == Line("empty", FALSE, <<>>, FALSE, 0, 0)
InvalidLine == Line("invalid", FALSE, <<>>, FALSE, 0, 0)
ValueLine == Line("value", FALSE, <<>>, FALSE, 0, 0)

ObjectLines ==
    { Line("object", FALSE, <<>>, FALSE, 0, 0) }
    \cup { Line("object", TRUE, c, FALSE, 0, 0) : c \in Texts }
    \cup { Line("object", FALSE, <<>>, TRUE, n[1], n[2]) : n \in { <<0, 0>>, <<2, 3>> } }
    \cup { Line("object", TRUE, c, TRUE, n[1], n[2]) :
               c \in Texts, n \in { <<0, 0>>, <<2, 3>> } }

StreamLines == { EmptyLine, InvalidLine, ValueLine } \cup ObjectLines

\* ContentDelta as it would be if the whole new text were sent each time.
ContentDeltaUnsliced(line, full) ==
    IF line.has_content THEN line.content ELSE <<>>

\* new_content[len(full_content):], or "" when the event has no content.
ContentDelta(line, full) ==
    IF line.has_content
    THEN SubSeq(line.content, Len(full) + 1, Len(line.content))
    ELSE <<>>

\* The events yielded.  delta <<>> stands for the empty delta object {},
\* finish_reason "null" for None, usage <<>> for an event without usage.
Chunk(model, content_delta, done) ==
    [data |-> "chunk", model |-> model, delta |-> content_delta,
     finish_reason |-> IF done THEN "stop" ELSE "null", usage |-> <<>>]

UsageChunk(model, line) ==
    [data |-> "chunk", model |-> model, delta |-> <<>>, finish_reason |-> "stop",
     usage |-> << line.prompt_eval_count, line.eval_count,
                  line.prompt_eval_count + line.eval_count >>]

DoneMarker ==
    [data |-> "[DONE]", model |-> <<>>, delta |-> <<>>, finish_reason |-> "null",
     usage |-> <<>>]

\* Yielded as it would be if a chunk were sent for every JSON object line.
YieldedForEveryObject(model, line, full) ==
    << Chunk(model, ContentDelta(line, full), line.done) >>
    \o (IF line.done THEN << UsageChunk(model, line), DoneMarker >> ELSE <<>>)

\* What the loop body yields for a JSON object line.
Yielded(model, line, full) ==
    LET content_delta == ContentDelta(line, full)
    IN  (IF content_delta # <<>> \/ line.done
         THEN << Chunk(model, content_delta, line.done) >>
         ELSE <<>>)
        \o (IF line.done THEN << UsageChunk(model, line), DoneMarker >> ELSE <<>>)

\* The state of the generator: its position, full_content, and what it has
\* yielded so far.
RelayState(p, full, evs) == [relay |-> p, full_content |-> full, events |-> evs]

\* One turn of the loop on a line.  Empty lines and lines json.loads rejects
\* are passed over; a JSON text that is not an object makes `"message" in
\* data` or data.get raise TypeError or AttributeError, which the handler of
\* json.JSONDecodeError does not catch; a done event ends the loop.
ProcessLine(model, st, line) ==
    IF line.kind \in {"empty", "invalid"} THEN st
    ELSE IF line.kind = "value" THEN RelayState("raised", st.full_content, st.events)
    ELSE RelayState(IF line.done THEN "completed" ELSE "streaming",
                    IF line.has_content THEN line.content ELSE st.full_content,
                    st.events \o Yielded(model, line, st.full_content))

\* The generator moves to the state st.
RelayBecomes(st) ==
    /\ relay' = st.relay
    /\ full_content' = st.full_content
    /\ events' = st.events

\* Handler 1 has returned the StreamingResponse of handle_ollama_stream for
\* an explicitly local streaming request, the local runtime has answered the
\* streaming call with status 200, and the loop is about to read the first
\* line.  The catalog is the one of a listing of llama3:latest.
InitStream ==
    \E m \in RequestModels :
        LET req    == [model |-> m, stream |-> TRUE]
            select == SelectManual(req, "local", <<>>, <<>>)
            opened == AfterOllamaStream(
                          "local",
                          Answered(Append(select.calls,
                                          Call("local", TransformOllamaRequest(req))),
                                   StatusResp(200, "ollama stream")),
                          select.metrics,
                          StatusResp(200, "ollama stream"))
            at(r, v, idle) == IF r = 1 THEN v ELSE idle
        IN  /\ now = 0
            /\ OPENROUTER_API_KEY = FALSE
            /\ ollama_models_cache = BuildModels(<<L3Latest>>)
            /\ ollama_cache_timestamp = <<0>>
            /\ startup = "running"
            /\ health = "idle"
            /\ pc = [r \in Requests |-> at(r, opened.pc, "idle")]
            /\ chat_request = [r \in Requests |-> at(r, req, NoRequest)]
            /\ backend = [r \in Requests |-> at(r, "local", "")]
            /\ selected_backend = [r \in Requests |-> at(r, opened.selected_backend, "")]
            /\ lookups = [r \in Requests |-> 0]
            /\ calls = [r \in Requests |-> at(r, opened.calls, <<>>)]
            /\ metrics = [r \in Requests |-> at(r, opened.metrics, <<>>)]
            /\ outcome = [r \in Requests |-> at(r, opened.outcome, NoOutcome)]
            /\ relay = "streaming"
            /\ full_content = <<>>
            /\ received = <<>>
            /\ events = <<>>
            /\ upstream = <<>>
            /\ health_response = NoHealthResponse
            /\ list_models = ListModelsIdle
            /\ translated = NoTranslation
            /\ catalog_build = NoCatalogBuild
            /\ http_client = <<>>
            /\ callers = NoCallers
            /\ proxy = ProxyIdle
            /\ tool = ToolIdle
            /\ manager = ManagerIdle

\* response.aiter_lines() produces a line and the loop body runs on it.
RelayLine(line) ==
    /\ relay = "streaming"
    /\ Len(received) < MaxLines
    /\ received' = Append(received, line)
    /\ RelayBecomes(ProcessLine(chat_request[1].model,
                                RelayState(relay, full_content, events), line))
    /\ UNCHANGED << auxVars, extVars, now, OPENROUTER_API_KEY, catalogVars, startup, health,
                    requestVars >>

\* The local runtime closes the response body: the iterator is exhausted,
\* the loop ends and the generator returns.
RelayEndOfStream ==
    /\ relay = "streaming"
    /\ relay' = "exhausted"
    /\ UNCHANGED << full_content, received, events >>
    /\ UNCHANGED << auxVars, extVars, now, OPENROUTER_API_KEY, catalogVars, startup, health,
                    requestVars >>

\* Reading the response body fails (httpx.ReadError, httpx.ReadTimeout): the
\* exception leaves the generator.
RelayReadError ==
    /\ relay = "streaming"
    /\ relay' = "raised"
    /\ UNCHANGED << full_content, received, events >>
    /\ UNCHANGED << auxVars, extVars, now, OPENROUTER_API_KEY, catalogVars, startup, health,
                    requestVars >>

NextStream ==
    \/ \E line \in StreamLines : RelayLine(line)
    \/ RelayEndOfStream
    \/ RelayReadError

SpecStream == InitStream /\ [][NextStream]_vars

(***************************************************************************)
(* The cloud streaming branch of chat_completions, from the provider's    *)
(* status 200 on: the handler returns StreamingResponse(generate()) from   *)
(* inside `async with client.stream(...) as response`, and the framework   *)
(* iterates generate() afterwards.  The relay modelled is the one of       *)
(* handler 1.                                                              *)
(***************************************************************************)

\* The lines of the provider's event stream.
CloudLines == { "data: {\"choices\": []}", "", "data: [DONE]" }

\* generate(): `async for chunk in response.aiter_lines(): yield chunk +
\* "\n"`, run to its end on a body of the given lines.  On a response that
\* has been closed aiter_lines raises httpx.StreamClosed before it produces a
\* line.  An event is the pair of the line and the newline appended to it.
Generate(is_closed, lines) ==
    IF is_closed
    THEN RelayState("raised", <<>>, <<>>)
    ELSE RelayState("exhausted", <<>>, [ i \in 1..Len(lines) |-> << lines[i], "\n" >> ])

\* Handler 1 has returned the StreamingResponse of an explicitly cloud
\* streaming request whose call the provider answered with status 200: the
\* return has left the `async with` block, which has closed the response.
InitCloudStream ==
    \E m \in RequestModels :
        LET req    == [model |-> m, stream |-> TRUE]
            select == SelectManual(req, "cloud", <<>>, <<>>)
            opened == AfterCloudStream(select.selected_backend, select.calls,
                                       select.metrics,
                                       StatusResp(200, "openrouter stream"))
            at(r, v, idle) == IF r = 1 THEN v ELSE idle
        IN  /\ now = 0
            /\ OPENROUTER_API_KEY = TRUE
            /\ ollama_models_cache = BuildModels(<<L3Latest>>)
            /\ ollama_cache_timestamp = <<0>>
            /\ startup = "running"
            /\ health = "idle"
            /\ pc = [r \in Requests |-> at(r, opened.pc, "idle")]
            /\ chat_request = [r \in Requests |-> at(r, req, NoRequest)]
            /\ backend = [r \in Requests |-> at(r, "cloud", "")]
            /\ selected_backend = [r \in Requests |-> at(r, opened.selected_backend, "")]
            /\ lookups = [r \in Requests |-> 0]
            /\ calls = [r \in Requests |-> at(r, opened.calls, <<>>)]
            /\ metrics = [r \in Requests |-> at(r, opened.metrics, <<>>)]
            /\ outcome = [r \in Requests |-> at(r, opened.outcome, NoOutcome)]
            /\ relay = "cloud_returned"
            /\ full_content = <<>>
            /\ received = <<>>
            /\ events = <<>>
            /\ upstream = <<>>
            /\ health_response = NoHealthResponse
            /\ list_models = ListModelsIdle
            /\ translated = NoTranslation
            /\ catalog_build = NoCatalogBuild
            /\ http_client = <<>>
            /\ callers = NoCallers
            /\ proxy = ProxyIdle
            /\ tool = ToolIdle
            /\ manager = ManagerIdle

\* The provider streams one more line of its answer.
ProviderStreams(line) ==
    /\ relay = "cloud_returned"
    /\ Len(upstream) < MaxLines
    /\ upstream' = Append(upstream, line)
    /\ UNCHANGED << relayVars, extVars, health_response, list_models, translated, now,
                    OPENROUTER_API_KEY, catalogVars, startup, health, requestVars >>

\* The framework sends the response body: it iterates generate() to its end.
\* The response is closed once the handler has returned its StreamingResponse,
\* the return having left the `async with` block.
CloudGenerate ==
    /\ relay = "cloud_returned"
    /\ RelayBecomes(Generate(outcome[1] = StreamResponse, upstream))
    /\ UNCHANGED << received, auxVars, extVars, now, OPENROUTER_API_KEY, catalogVars, startup,
                    health, requestVars >>

NextCloudStream ==
    \/ \E line \in CloudLines : ProviderStreams(line)
    \/ CloudGenerate

SpecCloudStream == InitCloudStream /\ [][NextCloudStream]_vars

(***************************************************************************)
(* The endpoints GET /health and GET /models, with the responses they      *)
(* return.                                                                 *)
(***************************************************************************)

ModelsFilters == {"all", "local", "cloud"}

\* What GET /models of the cloud provider may answer.
CloudModelsResponses ==
    { [kind |-> "status", code |-> 200, text |-> "models", listing |-> l] :
          l \in { <<>>, <<Gpt4>> } }
    \cup { StatusResp(503, "openrouter: unavailable"), Fault }

\* get_ollama_models raises to its caller: never.  A non-200 answer raises
\* nothing (lines 170-171) and every exception of the listing call is caught
\* (lines 173-175); both return [].
GetOllamaModelsRaises(resp) == FALSE

\* The backends dictionary of health_check; lookup_raised tells whether
\* `await get_ollama_models()` raised.
HealthBackends(lookup_raised, probe) ==
    [ollama |-> IF lookup_raised THEN "unavailable" ELSE "available",
     openrouter |-> IF OPENROUTER_API_KEY THEN "configured" ELSE "not_configured",
     probe |-> probe]

ModelInfo(id, name, b) == [id |-> id, name |-> name, backend |-> b]

\* ollama_models[model_name] in list_models: ollama_models is what
\* get_ollama_models returns, list(...keys()), and a list subscripted with a
\* string raises TypeError.
SubscriptRaises(container_type, index_type) ==
    container_type = "list" /\ index_type # "int"

RECURSIVE BaseNameInfos(_)
BaseNameInfos(names) ==
    IF names = {} THEN <<>>
    ELSE LET n == CHOOSE x \in names : TRUE
         IN  << ModelInfo(n, n, "local") >> \o BaseNameInfos(names \ {n})

\* The local part of list_models (lines 471-488) on the identifiers
\* get_ollama_models returned: the first turn of the loop raises TypeError,
\* which the handler of line 487 logs, models being still empty; were the
\* subscript to succeed, one entry per base name would be appended.
LocalModelInfos(ollama_models) ==
    IF ollama_models = {} THEN <<>>
    ELSE IF SubscriptRaises("list", "str") THEN <<>>
    ELSE BaseNameInfos({ SplitColon0(k) : k \in ollama_models })

\* The cloud part of list_models (lines 502-514) on the provider's answer.
CloudModelInfos(resp) ==
    IF IsOk(resp)
    THEN [ i \in 1..Len(resp.listing) |->
             ModelInfo(resp.listing[i], resp.listing[i], "cloud") ]
    ELSE <<>>

\* list_models after its local part: the provider is asked when the filter
\* admits cloud models and a credential is set, else the list is returned.
AfterLocalPart(b, models) ==
    IF b \in {"all", "cloud"} /\ OPENROUTER_API_KEY
    THEN [pc |-> "cloud_wait", backend |-> b, models |-> models]
    ELSE [pc |-> "returned", backend |-> b, models |-> models]

\* GET /health: health_check from its first line to the suspension in
\* get_ollama_models, or to its return when the cache is fresh.
HealthRequest ==
    /\ startup = "running"
    /\ health = "idle"
    /\ health' = IF CacheFresh THEN "idle" ELSE "tags_wait"
    /\ health_response' = IF CacheFresh THEN HealthBackends(FALSE, "")
                          ELSE NoHealthResponse
    /\ UNCHANGED << relayVars, extVars, upstream, list_models, translated, now, OPENROUTER_API_KEY,
                    catalogVars, startup, requestVars >>

\* health_check resumed with the listing answer, to its return.
HealthAnswer(resp) ==
    /\ health = "tags_wait"
    /\ ollama_models_cache' = RefreshedCache(resp)
    /\ ollama_cache_timestamp' = RefreshedTimestamp(resp)
    /\ health' = "idle"
    /\ health_response' = HealthBackends(GetOllamaModelsRaises(resp),
                                         IF IsOk(resp) THEN "ok" ELSE "failed")
    /\ UNCHANGED << relayVars, extVars, upstream, list_models, translated, now, OPENROUTER_API_KEY,
                    startup, requestVars >>

\* GET /models?backend=b: list_models from its first line to its first
\* suspension, or to its return.
ListModelsRequest(b) ==
    /\ startup = "running"
    /\ list_models.pc \in {"idle", "returned"}
    /\ list_models' =
          IF b \in {"all", "local"}
          THEN IF CacheFresh
               THEN AfterLocalPart(b, LocalModelInfos(DOMAIN ollama_models_cache))
               ELSE [pc |-> "tags_wait", backend |-> b, models |-> <<>>]
          ELSE AfterLocalPart(b, <<>>)
    /\ UNCHANGED << relayVars, extVars, upstream, health_response, translated, now,
                    OPENROUTER_API_KEY, catalogVars, startup, health, requestVars >>

\* list_models resumed with the listing answer of the local runtime.
ListModelsTagsResponse(resp) ==
    /\ list_models.pc = "tags_wait"
    /\ ollama_models_cache' = RefreshedCache(resp)
    /\ ollama_cache_timestamp' = RefreshedTimestamp(resp)
    /\ list_models' = AfterLocalPart(list_models.backend,
                                     LocalModelInfos(RefreshResult(resp)))
    /\ UNCHANGED << relayVars, extVars, upstream, health_response, translated, now,
                    OPENROUTER_API_KEY, startup, health, requestVars >>

\* list_models resumed with the provider's answer to GET /models.
ListModelsCloudResponse(resp) ==
    /\ list_models.pc = "cloud_wait"
    /\ list_models' = [pc |-> "returned", backend |-> list_models.backend,
                       models |-> list_models.models \o CloudModelInfos(resp)]
    /\ UNCHANGED << relayVars, extVars, upstream, health_response, translated, now,
                    OPENROUTER_API_KEY, catalogVars, startup, health, requestVars >>

NextEndpoints ==
    \/ Tick
    \/ StartupLookup
    \/ \E resp \in TagsResponses : StartupTagsResponse(resp)
    \/ HealthRequest
    \/ \E resp \in TagsResponses : HealthAnswer(resp)
    \/ \E b \in ModelsFilters : ListModelsRequest(b)
    \/ \E resp \in TagsResponses : ListModelsTagsResponse(resp)
    \/ \E resp \in CloudModelsResponses : ListModelsCloudResponse(resp)

SpecEndpoints == Init /\ [][NextEndpoints]_vars

(***************************************************************************)
(* The translators transform_ollama_request and transform_ollama_response, *)
(* and the usage event of handle_ollama_stream, applied to the bodies they *)
(* are given.  A JSON object is a function from its member names; an       *)
(* Optional field is <<>> for None and <<v>> for the value v.              *)
(***************************************************************************)
MaxMessages == 2

\* dict.get(k, default).
Get(d, k, default) == IF k \in DOMAIN d THEN d[k] ELSE default

Roles == {"user", "assistant"}
Contents == {"hi", "2+2?"}
ChatMessages == [role : Roles, content : Contents]

MessageLists == UNION { [1..n -> ChatMessages] : n \in 0..MaxMessages }

\* The ChatRequest bodies translated.
ChatRequests ==
    [model : RequestModels, messages : MessageLists, stream : BOOLEAN,
     temperature : { <<>>, <<0>>, <<7>> }, max_tokens : { <<>>, <<100>> },
     top_p : { <<>>, <<9>> }, frequency_penalty : { <<>>, <<5>> },
     presence_penalty : { <<>>, <<5>> }]

\* The JSON objects the local runtime may answer POST /api/chat with: each of
\* the members message, message.content, prompt_eval_count, eval_count and
\* done is present or omitted.
OllamaResponses ==
    { m @@ p @@ e @@ d :
        m \in { <<>>, "message" :> <<>> }
              \cup { "message" :> ("content" :> c) : c \in { <<>>, <<"H", "i">> } },
        p \in { <<>>, "prompt_eval_count" :> 0, "prompt_eval_count" :> 2 },
        e \in { <<>>, "eval_count" :> 0, "eval_count" :> 3 },
        d \in { <<>>, "done" :> TRUE, "done" :> FALSE } }

\* msg.dict() of a ChatMessage.
MessageDict(msg) == ("role" :> msg.role) @@ ("content" :> msg.content)

\* OllamaMessages as it would be if only the last message were sent.
OllamaMessagesLastOnly(messages) ==
    IF messages = <<>> THEN <<>> ELSE << MessageDict(messages[Len(messages)]) >>

\* [msg.dict() for msg in chat_request.messages].
OllamaMessages(messages) ==
    [ i \in 1..Len(messages) |-> MessageDict(messages[i]) ]

\* OllamaOptions as it would be if the parameters were tested for truth
\* instead of compared with None.
OllamaOptionsIfTruthy(req) ==
    (IF req.temperature \notin { <<>>, <<0>> } THEN "temperature" :> req.temperature[1] ELSE <<>>)
    @@ (IF req.max_tokens \notin { <<>>, <<0>> } THEN "num_predict" :> req.max_tokens[1] ELSE <<>>)
    @@ (IF req.top_p \notin { <<>>, <<0>> } THEN "top_p" :> req.top_p[1] ELSE <<>>)

\* request_data["options"]: the sampling parameters that are not None, under
\* the local runtime's names.
OllamaOptions(req) ==
    (IF req.temperature # <<>> THEN "temperature" :> req.temperature[1] ELSE <<>>)
    @@ (IF req.max_tokens # <<>> THEN "num_predict" :> req.max_tokens[1] ELSE <<>>)
    @@ (IF req.top_p # <<>> THEN "top_p" :> req.top_p[1] ELSE <<>>)

\* transform_ollama_request: request_data as returned, with its messages and
\* options.
OllamaRequestData(req) ==
    ("model" :> TransformOllamaRequest(req).model)
    @@ ("messages" :> OllamaMessages(req.messages))
    @@ ("stream" :> TransformOllamaRequest(req).stream)
    @@ (IF OllamaOptions(req) # <<>> THEN "options" :> OllamaOptions(req) ELSE <<>>)

\* Usage as it would be if total_tokens were the completion count alone.
UsageTotalIsCompletion(ollama_response) ==
    [prompt_tokens |-> Get(ollama_response, "prompt_eval_count", 0),
     completion_tokens |-> Get(ollama_response, "eval_count", 0),
     total_tokens |-> Get(ollama_response, "eval_count", 0)]

\* The usage member transform_ollama_response builds.
Usage(ollama_response) ==
    LET prompt_tokens == Get(ollama_response, "prompt_eval_count", 0)
        completion_tokens == Get(ollama_response, "eval_count", 0)
    IN  [prompt_tokens |-> prompt_tokens,
         completion_tokens |-> completion_tokens,
         total_tokens |-> prompt_tokens + completion_tokens]

\* transform_ollama_response: the canonical response, member by member.
CanonicalResponse(ollama_response, model_name) ==
    [model |-> model_name,
     content |-> IF "message" \in DOMAIN ollama_response
                 THEN Get(ollama_response["message"], "content", <<>>)
                 ELSE <<>>,
     finish_reason |-> IF Get(ollama_response, "done", FALSE) THEN "stop" ELSE "null",
     usage |-> Usage(ollama_response)]

\* The line of the local runtime's stream whose JSON object is data, as the
\* loop of handle_ollama_stream reads it.
LineOf(data) ==
    LET has_content == /\ "message" \in DOMAIN data
                       /\ "content" \in DOMAIN data["message"]
    IN  Line("object", has_content,
             IF has_content THEN data["message"]["content"] ELSE <<>>,
             Get(data, "done", FALSE),
             Get(data, "prompt_eval_count", 0),
             Get(data, "eval_count", 0))

\* No request is being handled; the catalog is the one of a listing of
\* llama3:latest.
InitTranslate ==
    /\ now = 0
    /\ OPENROUTER_API_KEY = FALSE
    /\ ollama_models_cache = BuildModels(<<L3Latest>>)
    /\ ollama_cache_timestamp = <<0>>
    /\ startup = "running"
    /\ health = "idle"
    /\ pc = [r \in Requests |-> "idle"]
    /\ chat_request = [r \in Requests |-> NoRequest]
    /\ backend = [r \in Requests |-> ""]
    /\ selected_backend = [r \in Requests |-> ""]
    /\ lookups = [r \in Requests |-> 0]
    /\ calls = [r \in Requests |-> <<>>]
    /\ metrics = [r \in Requests |-> <<>>]
    /\ outcome = [r \in Requests |-> NoOutcome]
    /\ relay = "none"
    /\ full_content = <<>>
    /\ received = <<>>
    /\ events = <<>>
    /\ upstream = <<>>
    /\ health_response = NoHealthResponse
    /\ list_models = ListModelsIdle
    /\ translated = NoTranslation
    /\ catalog_build = NoCatalogBuild
    /\ http_client = <<>>
    /\ callers = NoCallers
    /\ proxy = ProxyIdle
    /\ tool = ToolIdle
    /\ manager = ManagerIdle

\* The record of a translator call: fn applied to arg has returned result.
Translation(fn, arg, result) == [fn |-> fn, arg |-> arg, result |-> result]

\* transform_ollama_request is applied to a ChatRequest.
TransformRequest(req) ==
    /\ translated = NoTranslation
    /\ translated' = Translation("transform_ollama_request", req, OllamaRequestData(req))
    /\ UNCHANGED << relayVars, extVars, upstream, health_response, list_models, now,
                    OPENROUTER_API_KEY, catalogVars, startup, health, requestVars >>

\* transform_ollama_response is applied to the local runtime's answer.
TransformResponse(ollama_response, model_name) ==
    /\ translated = NoTranslation
    /\ translated' = Translation("transform_ollama_response", ollama_response,
                                 CanonicalResponse(ollama_response, model_name))
    /\ UNCHANGED << relayVars, extVars, upstream, health_response, list_models, now,
                    OPENROUTER_API_KEY, catalogVars, startup, health, requestVars >>

\* The relay builds the usage event from a done event of the stream.
BuildUsageChunk(data, model_name) ==
    /\ translated = NoTranslation
    /\ LineOf(data).done
    /\ translated' = Translation("usage_chunk", data, UsageChunk(model_name, LineOf(data)))
    /\ UNCHANGED << relayVars, extVars, upstream, health_response, list_models, now,
                    OPENROUTER_API_KEY, catalogVars, startup, health, requestVars >>

NextTranslate ==
    \/ \E req \in ChatRequests : TransformRequest(req)
    \/ \E d \in OllamaResponses, m \in RequestModels : TransformResponse(d, m)
    \/ \E d \in OllamaResponses, m \in RequestModels : BuildUsageChunk(d, m)

SpecTranslate == InitTranslate /\ [][NextTranslate]_vars

(***************************************************************************)
(* get_ollama_models on listings of tagged and untagged names: the refresh *)
(* alone, with the listing it was answered with kept next to the cache.    *)
(***************************************************************************)
MaxListing == 3

baseVars == << now, OPENROUTER_API_KEY, catalogVars, startup, health, requestVars,
               relayVars, auxVars >>

Llama3 == <<"llama3">>
Mistral == <<"mistral">>
Mistral7b == <<"mistral", ":", "7b">>

\* The "name" members a listing may hold: with a tag or without one.
ListedNames == { Llama3, L3Latest, L38b, Mistral, Mistral7b }

CatalogListings == UNION { [1..n -> ListedNames] : n \in 0..MaxListing }

TagsOk(listing) == [kind |-> "status", code |-> 200, text |-> "tags", listing |-> listing]

\* The proxy's state in the specifications of its parts: no request is being
\* handled and the catalog is the one of a listing of llama3:latest.
BaseIdle ==
    /\ now = 0
    /\ OPENROUTER_API_KEY = FALSE
    /\ ollama_models_cache = BuildModels(<<L3Latest>>)
    /\ ollama_cache_timestamp = <<0>>
    /\ startup = "running"
    /\ health = "idle"
    /\ pc = [r \in Requests |-> "idle"]
    /\ chat_request = [r \in Requests |-> NoRequest]
    /\ backend = [r \in Requests |-> ""]
    /\ selected_backend = [r \in Requests |-> ""]
    /\ lookups = [r \in Requests |-> 0]
    /\ calls = [r \in Requests |-> <<>>]
    /\ metrics = [r \in Requests |-> <<>>]
    /\ outcome = [r \in Requests |-> NoOutcome]
    /\ relay = "none"
    /\ full_content = <<>>
    /\ received = <<>>
    /\ events = <<>>
    /\ upstream = <<>>
    /\ health_response = NoHealthResponse
    /\ list_models = ListModelsIdle
    /\ translated = NoTranslation

InitCatalog ==
    /\ BaseIdle
    /\ catalog_build = NoCatalogBuild
    /\ http_client = <<>>
    /\ callers = NoCallers
    /\ proxy = ProxyIdle
    /\ tool = ToolIdle
    /\ manager = ManagerIdle

\* get_ollama_models, from the answer of GET /api/tags (status 200, the given
\* listing) to its return.
CatalogRefresh(listing) ==
    /\ ollama_models_cache' = RefreshedCache(TagsOk(listing))
    /\ ollama_cache_timestamp' = RefreshedTimestamp(TagsOk(listing))
    /\ catalog_build' = [built |-> TRUE, listing |-> listing,
                         models |-> RefreshResult(TagsOk(listing))]
    /\ UNCHANGED << now, OPENROUTER_API_KEY, startup, health, requestVars, relayVars,
                    auxVars, http_client, callers, proxy, tool, manager >>

NextCatalog == \E listing \in CatalogListings : CatalogRefresh(listing)

SpecCatalog == InitCatalog /\ [][NextCatalog]_vars

(***************************************************************************)
(* get_http_client and the lifespan of the shared client.  Instances of    *)
(* httpx.AsyncClient are numbered in the order of their creation.          *)
(* get_http_client has no await of its own: its test and its assignment    *)
(* run without another coroutine in between.  The server runs              *)
(* startup_event before it serves requests and shutdown_event once the     *)
(* handlers in flight have returned.                                       *)
(***************************************************************************)
NumHandlers == 3
MaxCalls == 2

ClientHandlers == 1..NumHandlers

\* GetHttpClient as it would be if every call made a client of its own.
GetHttpClientPerCall(client, created) ==
    [http_client |-> << created + 1 >>, created |-> created + 1]

\* get_http_client: the global after the call (the value returned) and the
\* number of instances created so far.
GetHttpClient(client, created) ==
    IF client = <<>>
    THEN [http_client |-> << created + 1 >>, created |-> created + 1]
    ELSE [http_client |-> client, created |-> created]

InitClient ==
    /\ BaseIdle
    /\ catalog_build = NoCatalogBuild
    /\ http_client = <<>>
    /\ proxy = ProxyIdle
    /\ tool = ToolIdle
    /\ manager = ManagerIdle
    /\ callers = [created |-> 0, closed |-> {}, lifespan |-> "init",
                  handlers |-> [h \in ClientHandlers |-> [pc |-> "idle", used |-> <<>>]]]

\* startup_event up to its first suspension: get_ollama_models takes the
\* client and awaits GET /api/tags.
ClientStartupLookup ==
    /\ callers.lifespan = "init"
    /\ LET got == GetHttpClient(http_client, callers.created)
       IN  /\ http_client' = got.http_client
           /\ callers' = [callers EXCEPT !.created = got.created,
                                         !.lifespan = "tags_wait"]
    /\ UNCHANGED << baseVars, catalog_build, proxy, tool, manager >>

\* startup_event after the listing call: get_http_client once more, then the
\* service is started.
ClientStartupDone ==
    /\ callers.lifespan = "tags_wait"
    /\ LET got == GetHttpClient(http_client, callers.created)
       IN  /\ http_client' = got.http_client
           /\ callers' = [callers EXCEPT !.created = got.created,
                                         !.lifespan = "running"]
    /\ UNCHANGED << baseVars, catalog_build, proxy, tool, manager >>

\* A handler (or a function it calls) takes the client and awaits a backend
\* call made with it.
HandlerCall(h) ==
    /\ callers.lifespan = "running"
    /\ callers.handlers[h].pc = "idle"
    /\ Len(callers.handlers[h].used) < MaxCalls
    /\ LET got == GetHttpClient(http_client, callers.created)
       IN  /\ http_client' = got.http_client
           /\ callers' = [callers EXCEPT
                            !.created = got.created,
                            !.handlers[h] = [pc |-> "awaiting",
                                             used |-> Append(@.used, got.http_client[1])]]
    /\ UNCHANGED << baseVars, catalog_build, proxy, tool, manager >>

\* The backend call of a handler ends.
HandlerResumes(h) ==
    /\ callers.handlers[h].pc = "awaiting"
    /\ callers' = [callers EXCEPT !.handlers[h].pc = "idle"]
    /\ UNCHANGED << baseVars, catalog_build, http_client, proxy, tool, manager >>

\* shutdown_event: the client is closed; the global keeps naming it.
ClientShutdown ==
    /\ callers.lifespan = "running"
    /\ \A h \in ClientHandlers : callers.handlers[h].pc = "idle"
    /\ callers' = [callers EXCEPT
                     !.lifespan = "stopped",
                     !.closed = IF http_client # <<>> THEN @ \cup { http_client[1] } ELSE @]
    /\ UNCHANGED << baseVars, catalog_build, http_client, proxy, tool, manager >>

NextClient ==
    \/ ClientStartupLookup
    \/ ClientStartupDone
    \/ \E h \in ClientHandlers : HandlerCall(h)
    \/ \E h \in ClientHandlers : HandlerResumes(h)
    \/ ClientShutdown

SpecClient == InitClient /\ [][NextClient]_vars

(***************************************************************************)
(* The standalone cloud proxy (openrouter-proxy): chat_completions, from   *)
(* the request to the awaited POST and from the provider's answer to the   *)
(* return.                                                                 *)
(***************************************************************************)
NumProxyHandlers == 2

ProxyHandlers == 1..NumProxyHandlers

\* What the POST to the provider ends with: a status and a body (json_ok
\* tells whether response.json() can parse it), or an httpx.HTTPError.
ProxyResponses ==
    { [kind |-> "status", code |-> 200, text |-> "openrouter completion", json_ok |-> TRUE],
      [kind |-> "status", code |-> 200, text |-> "<html>", json_ok |-> FALSE],
      [kind |-> "status", code |-> 429, text |-> "openrouter: rate limited", json_ok |-> TRUE],
      [kind |-> "status", code |-> 503, text |-> "openrouter: unavailable", json_ok |-> FALSE],
      [kind |-> "fault", code |-> 0, text |-> "", json_ok |-> FALSE] }

NoProxyResponse == [kind |-> "pending", code |-> 0, text |-> "", json_ok |-> FALSE]

\* REQUEST_COUNT.labels(model, status).inc() and
\* REQUEST_DURATION.labels(model).observe(duration).
ProxySample(m, model, status) == [metric |-> m, model |-> model, status |-> status]

\* The handler's state: position, requested model, the provider's answer,
\* the samples emitted and what the caller receives.
ProxyHandler(p, model, resp, ms, oc) ==
    [pc |-> p, model |-> model, resp |-> resp, metrics |-> ms, outcome |-> oc]

\* except Exception: the error counter and a generic 500.
ProxyInternalError(model, resp, ms) ==
    ProxyHandler("returned", model, resp,
                 Append(ms, ProxySample("REQUEST_COUNT", model, "error")),
                 HttpError(500, "Internal server error", <<>>))

\* chat_completions resumed with the answer of the POST.  The HTTPException
\* raised for a non-200 status is raised inside the try block: it is not an
\* httpx.HTTPError and is caught by except Exception.
AfterProxyPost(model, ms, resp) ==
    IF resp.kind = "fault"
    THEN ProxyHandler("returned", model, resp,
                      Append(ms, ProxySample("REQUEST_COUNT", model, "error")),
                      HttpError(502, "Failed to communicate with OpenRouter", <<>>))
    ELSE LET recorded == ms \o << ProxySample("REQUEST_DURATION", model, "observed"),
                                  ProxySample("REQUEST_COUNT", model, resp.code) >>
         IN  IF resp.code # 200 THEN ProxyInternalError(model, resp, recorded)
             ELSE IF ~resp.json_ok THEN ProxyInternalError(model, resp, recorded)
             ELSE ProxyHandler("returned", model, resp, recorded,
                               JsonResponse([src |-> "openrouter", model |-> <<>>,
                                             text |-> resp.text]))

InitCloudProxy ==
    /\ BaseIdle
    /\ catalog_build = NoCatalogBuild
    /\ http_client = <<>>
    /\ callers = NoCallers
    /\ tool = ToolIdle
    /\ manager = ManagerIdle
    /\ proxy = [h \in ProxyHandlers |->
                  ProxyHandler("idle", <<>>, NoProxyResponse, <<>>, NoOutcome)]

\* POST /chat/completions arrives: the handler runs to the awaited POST.
ProxyReceive(h, m) ==
    /\ proxy[h].pc = "idle"
    /\ proxy' = [proxy EXCEPT ![h] =
                   ProxyHandler("post_wait", m, NoProxyResponse, <<>>, NoOutcome)]
    /\ UNCHANGED << baseVars, catalog_build, http_client, callers, tool, manager >>

\* The provider answers (or the exchange fails) and the handler runs to its
\* end.
ProxyPostResponse(h, resp) ==
    /\ proxy[h].pc = "post_wait"
    /\ proxy' = [proxy EXCEPT ![h] = AfterProxyPost(proxy[h].model, proxy[h].metrics, resp)]
    /\ UNCHANGED << baseVars, catalog_build, http_client, callers, tool, manager >>

NextCloudProxy ==
    \/ \E h \in ProxyHandlers, m \in RequestModels : ProxyReceive(h, m)
    \/ \E h \in ProxyHandlers, resp \in ProxyResponses : ProxyPostResponse(h, resp)

SpecCloudProxy == InitCloudProxy /\ [][NextCloudProxy]_vars

(***************************************************************************)
(* The retrieval tool (context-pack-tool): one operation of Tools, from    *)
(* its invocation to its return.  The handler is suspended while it awaits *)
(* the event emitter and while it awaits the HTTP call.                    *)
(***************************************************************************)
ToolOperations ==
    {"search_context", "generate_with_context", "list_skills", "generate_with_skills"}

\* How the HTTP exchange with the Context Pack API ends: a 2xx answer whose
\* JSON body has n items (or, for the generate operations, an output when
\* n > 0); a 2xx answer whose JSON body is of another shape than the
\* operation reads; a 2xx answer that is not JSON; a status for which
\* raise_for_status raises httpx.HTTPStatusError; a transport error.
ToolExchanges ==
    { [kind |-> "json", n |-> n, code |-> 200] : n \in 0..2 }
    \cup { [kind |-> "wrong_shape", n |-> 0, code |-> 200],
           [kind |-> "invalid_json", n |-> 0, code |-> 200],
           [kind |-> "transport_error", n |-> 0, code |-> 0] }
    \cup { [kind |-> "status_error", n |-> 0, code |-> c] : c \in {404, 500} }

\* The event passed to __event_emitter__.
StatusEvent(description, done) ==
    [type |-> "status", description |-> description, done |-> done]

\* A string returned to the caller.
Returns(text) == << [kind |-> "string", text |-> text] >>

\* The state of the operation: position, operation, emitter given or not,
\* events emitted, what is left to do after the awaited emitter call, and
\* what the caller has received; exchange is filled in with the way the HTTP
\* exchange ended, once it has.
Operation(p, op, emitter, evs, pending, result) ==
    [pc |-> p, op |-> op, emitter |-> emitter, events |-> evs,
     pending |-> pending, result |-> result, exchange |-> <<>>]

\* An except clause: the error message is emitted as a final status event
\* (not by list_skills, whose clauses only return) and returned.
ToolExcept(op, emitter, evs, error_msg) ==
    IF emitter /\ op # "list_skills"
    THEN Operation("emit_wait", op, emitter,
                   Append(evs, StatusEvent(error_msg, TRUE)),
                   [then |-> "return", text |-> error_msg], <<>>)
    ELSE Operation("returned", op, emitter, evs, <<>>, Returns(error_msg))

\* The code after the final status event of the success path: the answer is
\* formatted and returned; reading an answer of another shape raises, and
\* the exception is caught by except Exception.
ToolFormat(op, emitter, evs, exchange) ==
    IF exchange.kind = "wrong_shape"
    THEN ToolExcept(op, emitter, evs, "Unexpected error")
    ELSE Operation("returned", op, emitter, evs, <<>>,
                   Returns(IF exchange.n = 0 THEN "nothing found" ELSE "formatted"))

\* From the end of the HTTP exchange to the next suspension or to the return.
AfterToolExchange(op, emitter, evs, exchange) ==
    IF exchange.kind \in {"status_error", "transport_error"}
    THEN ToolExcept(op, emitter, evs, "Error connecting to Context Pack API")
    ELSE IF exchange.kind = "invalid_json"
    THEN ToolExcept(op, emitter, evs, "Unexpected error")
    ELSE IF emitter
    THEN Operation("emit_wait", op, emitter,
                   Append(evs, StatusEvent("complete", TRUE)),
                   [then |-> "format", exchange |-> exchange], <<>>)
    ELSE ToolFormat(op, emitter, evs, exchange)

\* The operation resumes after an awaited emitter call.
AfterEmit(t) ==
    IF t.pending.then = "request"
    THEN Operation("get_wait", t.op, t.emitter, t.events, <<>>, <<>>)
    ELSE IF t.pending.then = "format"
    THEN ToolFormat(t.op, t.emitter, t.events, t.pending.exchange)
    ELSE Operation("returned", t.op, t.emitter, t.events, <<>>, Returns(t.pending.text))

InitTool ==
    /\ BaseIdle
    /\ catalog_build = NoCatalogBuild
    /\ http_client = <<>>
    /\ callers = NoCallers
    /\ proxy = ProxyIdle
    /\ manager = ManagerIdle
    /\ tool = ToolIdle

\* An operation is invoked, with or without an event emitter: with one, the
\* initial status event is emitted and awaited; without, the HTTP call is
\* made and awaited.
ToolInvoke(op, emitter) ==
    /\ tool.pc = "idle"
    /\ tool' = IF emitter
               THEN Operation("emit_wait", op, emitter,
                              << StatusEvent("started", FALSE) >>,
                              [then |-> "request"], <<>>)
               ELSE Operation("get_wait", op, emitter, <<>>, <<>>, <<>>)
    /\ UNCHANGED << baseVars, catalog_build, http_client, callers, proxy, manager >>

\* The awaited emitter call returns.
ToolEmitReturns ==
    /\ tool.pc = "emit_wait"
    /\ tool' = [AfterEmit(tool) EXCEPT !.exchange = tool.exchange]
    /\ UNCHANGED << baseVars, catalog_build, http_client, callers, proxy, manager >>

\* The HTTP exchange ends.
ToolExchange(exchange) ==
    /\ tool.pc = "get_wait"
    /\ tool' = [AfterToolExchange(tool.op, tool.emitter, tool.events, exchange)
                  EXCEPT !.exchange = << exchange >>]
    /\ UNCHANGED << baseVars, catalog_build, http_client, callers, proxy, manager >>

NextTool ==
    \/ \E op \in ToolOperations, emitter \in BOOLEAN : ToolInvoke(op, emitter)
    \/ ToolEmitReturns
    \/ \E exchange \in ToolExchanges : ToolExchange(exchange)

SpecTool == InitTool /\ [][NextTool]_vars

(***************************************************************************)
(* The model manager: ModelManager.download_ollama_model, from the call to *)
(* the return, one download at a time.                                     *)
(***************************************************************************)
MaxPullLines == 2

PullModels == { L3Latest, Mistral7b }

\* What POST /api/pull ends with: a status, or an exception of requests.
PullAnswers == { [kind |-> "status", code |-> c] : c \in {200, 404, 500} }
               \cup { [kind |-> "fault", code |-> 0] }

\* The lines of the progress stream: empty (skipped); a JSON object with or
\* without "status"; a text json.loads rejects (skipped); bytes that are not
\* UTF-8 (decode raises UnicodeDecodeError); a JSON number ("status" in data
\* raises TypeError).
PullLines == {"empty", "status_object", "object", "invalid_json", "not_utf8", "number"}

\* How save_model_registry ends: the file holds the registry; open() failed
\* and the file is as it was; the write failed after open() truncated the
\* file.  It catches its own exceptions.
SaveOutcomes == {"written", "open_failed", "write_failed"}

\* MODEL_DOWNLOADS.labels(model_type="ollama", status=...).inc()
DownloadSample(status) == [metric |-> "MODEL_DOWNLOADS", model_type |-> "ollama", status |-> status]

\* The registry entry of a downloaded model (downloaded_at left out).
RegistryEntry == [type |-> "ollama", status |-> "downloaded"]

\* self.model_registry[model_name] = {...}
Registered(registry, model_name) == (model_name :> RegistryEntry) @@ registry

\* The content of registry.json after save_model_registry.
Saved(file, registry, save) ==
    IF save = "written" THEN registry
    ELSE IF save = "open_failed" THEN file
    ELSE <<>>

\* The error exits: the else branch of the status test and the except
\* clause.
PullFailed(m) ==
    [m EXCEPT !.pc = "returned",
              !.metrics = Append(@, DownloadSample("error")),
              !.returned = << FALSE >>]

\* AfterPullAnswer as it would be if the model were registered as soon as
\* the pull call answered 200.
AfterPullAnswerRegistersAtOnce(m, answer) ==
    IF answer.kind = "fault" THEN PullFailed(m)
    ELSE IF answer.code = 200
    THEN [m EXCEPT !.pc = "streaming", !.pull_status = answer.code,
                   !.model_registry = Registered(@, m.model_name)]
    ELSE PullFailed([m EXCEPT !.pull_status = answer.code])

\* From the answer of requests.post to the first line of the stream, or to
\* the return.
AfterPullAnswer(m, answer) ==
    IF answer.kind = "fault" THEN PullFailed(m)
    ELSE IF answer.code = 200
    THEN [m EXCEPT !.pc = "streaming", !.pull_status = answer.code]
    ELSE PullFailed([m EXCEPT !.pull_status = answer.code])

\* The loop body on one line of the progress stream.
AfterPullLine(m, line) ==
    IF line \in {"not_utf8", "number"}
    THEN PullFailed([m EXCEPT !.lines = @ + 1])
    ELSE [m EXCEPT !.lines = @ + 1]

\* The stream is exhausted: registry update, save, success metric, True.
AfterPullEnd(m, save) ==
    [m EXCEPT !.pc = "returned",
              !.stream_ended = TRUE,
              !.model_registry = Registered(@, m.model_name),
              !.registry_file = Saved(@, Registered(m.model_registry, m.model_name), save),
              !.metrics = Append(@, DownloadSample("success")),
              !.returned = << TRUE >>]

InitManager ==
    /\ BaseIdle
    /\ catalog_build = NoCatalogBuild
    /\ http_client = <<>>
    /\ callers = NoCallers
    /\ proxy = ProxyIdle
    /\ tool = ToolIdle
    /\ manager = ManagerIdle

\* download_ollama_model(model_name) is called and waits for the answer of
\* POST /api/pull.
Download(model_name) ==
    /\ manager.pc \in {"idle", "returned"}
    /\ manager' = [manager EXCEPT !.pc = "pull_wait", !.model_name = model_name,
                                  !.pull_status = 0, !.stream_ended = FALSE,
                                  !.lines = 0, !.metrics = <<>>, !.returned = <<>>]
    /\ UNCHANGED << baseVars, catalog_build, http_client, callers, proxy, tool >>

\* The pull call is answered, or raises.
PullAnswer(answer) ==
    /\ manager.pc = "pull_wait"
    /\ manager' = AfterPullAnswer(manager, answer)
    /\ UNCHANGED << baseVars, catalog_build, http_client, callers, proxy, tool >>

\* response.iter_lines() produces a line.
PullLine(line) ==
    /\ manager.pc = "streaming"
    /\ manager.lines < MaxPullLines
    /\ manager' = AfterPullLine(manager, line)
    /\ UNCHANGED << baseVars, catalog_build, http_client, callers, proxy, tool >>

\* Reading the stream raises (connection lost, timeout).
PullStreamError ==
    /\ manager.pc = "streaming"
    /\ manager' = PullFailed(manager)
    /\ UNCHANGED << baseVars, catalog_build, http_client, callers, proxy, tool >>

\* The stream ends.
PullStreamEnd(save) ==
    /\ manager.pc = "streaming"
    /\ manager' = AfterPullEnd(manager, save)
    /\ UNCHANGED << baseVars, catalog_build, http_client, callers, proxy, tool >>

NextManager ==
    \/ \E model_name \in PullModels : Download(model_name)
    \/ \E answer \in PullAnswers : PullAnswer(answer)
    \/ \E line \in PullLines : PullLine(line)
    \/ PullStreamError
    \/ \E save \in SaveOutcomes : PullStreamEnd(save)

SpecManager == InitManager /\ [][NextManager]_vars

(***************************************************************************)
(* Properties.                                                             *)
(***************************************************************************)

\* The override a request was made with.
Override(r) == BackendOrDefault(backend[r])

\* The positions in calls[r] of the calls made to b ("local", "cloud": the
\* completion endpoints; "tags": the model-listing endpoint).
CallsTo(r, b) == { i \in 1..Len(calls[r]) : calls[r][i].to = b }

NonSuccess(resp) == resp.kind = "status" /\ resp.code # 200

Emitted(r, sample) == { i \in 1..Len(metrics[r]) : metrics[r][i] = sample }

Started(r) == pc[r] # "idle"

NonStreaming(r) == Started(r) /\ ~chat_request[r].stream

\* C1: in the non-streaming path, under override Auto resolved to Cloud, a
\* non-success status of the cloud call leads to exactly one call of the local
\* backend carrying the request in local form, to one recorded cloud->local
\* fallback, and, when the local call succeeds, to its result being returned
\* and counted under backend=local.
C1_CloudFailureFallsBack ==
    \A r \in Requests :
        ( /\ NonStreaming(r)
          /\ pc[r] \in {"done", "failed"}
          /\ Override(r) = "auto"
          /\ \E i \in CallsTo(r, "cloud") : NonSuccess(calls[r][i].resp) )
        => /\ Cardinality(CallsTo(r, "local")) = 1
           /\ Cardinality(Emitted(r, Sample("FALLBACK_COUNT", "cloud", "local"))) = 1
           /\ \A j \in CallsTo(r, "local") :
                 /\ calls[r][j].model = TransformOllamaRequest(chat_request[r]).model
                 /\ calls[r][j].stream = TransformOllamaRequest(chat_request[r]).stream
                 /\ IsOk(calls[r][j].resp)
                    => /\ outcome[r] = JsonResponse(TransformOllamaResponse(
                                           calls[r][j].resp, chat_request[r].model))
                       /\ Emitted(r, Sample("REQUEST_COUNT", "local", "success")) # {}

\* C2: under the explicit override Cloud no call to the local backend is ever
\* made, and a non-success status of the cloud call ends the request with an
\* error carrying that status and body.
C2_ExplicitCloudFailureSurfaced ==
    \A r \in Requests :
        (Started(r) /\ Override(r) = "cloud")
        => /\ CallsTo(r, "local") = {}
           /\ \A i \in CallsTo(r, "cloud") :
                 NonSuccess(calls[r][i].resp)
                 => /\ pc[r] = "failed"
                    /\ outcome[r] = HttpError(calls[r][i].resp.code, calls[r][i].resp.text, <<>>)

\* An explicit Cloud request whose cloud call was answered 503 has failed.
C2_Witness ==
    \E r \in Requests :
        /\ NonStreaming(r)
        /\ Override(r) = "cloud"
        /\ pc[r] = "failed"
        /\ \E i \in CallsTo(r, "cloud") : calls[r][i].resp.code = 503

\* The step in which request r's selection is made: the handler leaves the
\* positions that precede the selection.
Selects(r) ==
    /\ pc[r] \in {"idle", "tags_wait"}
    /\ pc'[r] \notin {"idle", "tags_wait"}

\* C3: under override Auto the request resolves to Local iff its model
\* identifier or its base name is a key of the catalog cache at selection
\* time, and to Cloud otherwise.
C3_AutoSelectsByCatalog ==
    [][ \A r \in Requests :
          (Selects(r) /\ BackendOrDefault(backend'[r]) = "auto")
          => LET m    == chat_request'[r].model
                 keys == DOMAIN ollama_models_cache'
             IN  selected_backend'[r] =
                     IF m \in keys \/ SplitColon0(m) \in keys THEN "local" ELSE "cloud"
      ]_vars

\* C4: under an explicit override v (Local or Cloud) the backend acted upon
\* is v whatever the catalog holds, and selecting consults the catalog
\* neither through a lookup nor through a model-listing call.
C4_ExplicitOverrideWins ==
    \A r \in Requests :
        (Started(r) /\ Override(r) \in {"local", "cloud"})
        => /\ selected_backend[r] = Override(r)
           /\ lookups[r] = 0
           /\ \A i \in 1..Len(calls[r]) : calls[r][i].to = Override(r)
           /\ metrics[r][1] = Sample("BACKEND_SELECTION", Override(r), "manual")

\* An explicit Cloud request for a model the catalog holds has called the
\* cloud provider.
C4_Witness ==
    \E r \in Requests :
        /\ Started(r)
        /\ Override(r) = "cloud"
        /\ chat_request[r].model \in DOMAIN ollama_models_cache
        /\ CallsTo(r, "cloud") # {}

\* A call that ended without a 200 answer.
FailedCall(c) == c.resp.kind = "fault" \/ NonSuccess(c.resp)

\* C5: a request issues at most one cloud completion call and at most one
\* local completion call, records at most one fallback, and a failed local
\* call is the request's last call, with the failure given to the caller.
C5_AtMostOneAttemptPerBackend ==
    \A r \in Requests :
        /\ Cardinality(CallsTo(r, "cloud")) <= 1
        /\ Cardinality(CallsTo(r, "local")) <= 1
        /\ Cardinality(Emitted(r, Sample("FALLBACK_COUNT", "cloud", "local"))) <= 1
        /\ \A i \in CallsTo(r, "local") :
              FailedCall(calls[r][i])
              => i = Len(calls[r]) /\ pc[r] \in {"failed", "aborted"}

\* A request has failed on its only local call.
C5_Witness ==
    \E r \in Requests :
        /\ pc[r] = "failed"
        /\ \E i \in CallsTo(r, "local") : FailedCall(calls[r][i])
        /\ Cardinality(CallsTo(r, "local")) = 1

\* C6: in the non-streaming path under override Auto, a transport fault of
\* the cloud call triggers the fallback call to the local backend, as a
\* non-success status is specified to.
C6_CloudFaultFallsBack ==
    \A r \in Requests :
        ( /\ NonStreaming(r)
          /\ pc[r] \in {"done", "failed"}
          /\ Override(r) = "auto"
          /\ \E i \in CallsTo(r, "cloud") : calls[r][i].resp.kind = "fault" )
        => CallsTo(r, "local") # {}

\* C7: in the non-streaming path a non-success status of the local backend
\* ends the request at once with an error carrying that status code and
\* body; no call follows it.
C7_LocalFailureSurfaced ==
    \A r \in Requests :
        NonStreaming(r)
        => \A i \in CallsTo(r, "local") :
              NonSuccess(calls[r][i].resp)
              => /\ i = Len(calls[r])
                 /\ pc[r] = "failed"
                 /\ outcome[r] = HttpError(calls[r][i].resp.code, calls[r][i].resp.text, <<>>)

\* A non-streaming request has failed on a 404 of the local runtime.
C7_Witness ==
    \E r \in Requests :
        /\ NonStreaming(r)
        /\ pc[r] = "failed"
        /\ \E i \in CallsTo(r, "local") : calls[r][i].resp.code = 404

C9_AutoUnconfiguredIsNotFound ==
    \A r \in Requests :
        ( /\ NonStreaming(r)
          /\ Override(r) = "auto"
          /\ selected_backend[r] = "cloud"
          /\ ~OPENROUTER_API_KEY )
        => /\ outcome[r].status = 404
           /\ outcome[r].model = chat_request[r].model

\* A step in which a catalog refresh fails: a model-listing call is answered
\* with a non-200 status or ends in a transport fault.
FailedRefresh ==
    \/ \E r \in Requests :
          /\ pc[r] = "tags_wait"
          /\ pc'[r] # "tags_wait"
          /\ ~IsOk(calls'[r][Len(calls[r])].resp)
    \/ \E resp \in TagsResponses :
          /\ ~IsOk(resp)
          /\ StartupTagsResponse(resp) \/ HealthTagsResponse(resp)

\* C10: a failed catalog refresh leaves the cached entries and the cache
\* timestamp exactly as they were.
C10_FailedRefreshKeepsCache ==
    [][ FailedRefresh => UNCHANGED catalogVars ]_vars

\* A request's listing call has failed, and the cache still holds the
\* entries of time 0 although their age has reached the time-to-live.
C10_Witness ==
    \E r \in Requests :
        /\ \E i \in CallsTo(r, "tags") : FailedCall(calls[r][i])
        /\ DOMAIN ollama_models_cache # {}
        /\ ollama_cache_timestamp = <<0>>
        /\ now >= OLLAMA_CACHE_TTL

\* The step in which request r's model-listing call ends without a 200
\* answer (a failed refresh triggered by r's lookup).
RefreshFailsFor(r) ==
    /\ pc[r] = "tags_wait"
    /\ pc'[r] # "tags_wait"
    /\ ~IsOk(calls'[r][Len(calls[r])].resp)

\* The model of request r is locally servable by the cached entries: its
\* identifier or its base name is a key of the cache.
CachedServable(r) ==
    \/ chat_request[r].model \in DOMAIN ollama_models_cache
    \/ SplitColon0(chat_request[r].model) \in DOMAIN ollama_models_cache

\* C11: stale-but-available.  When the refresh triggered by a lookup fails
\* while the cache holds the entries of an earlier successful refresh, the
\* lookup is answered with the cached identifiers: a model servable by the
\* cached entries is still resolved to the local backend.
C11_StaleCacheStillAnswers ==
    [][ \A r \in Requests :
          (RefreshFailsFor(r) /\ CachedServable(r))
          => selected_backend'[r] = "local"
      ]_vars

\* A step in which get_ollama_models is called: by a request that selects
\* automatically, or by the health endpoint.
LookupStep ==
    \/ \E r \in Requests : lookups'[r] = lookups[r] + 1
    \/ health = "idle" /\ HealthCheck

\* A step in which a model-listing call is issued to the local runtime.
ListingCallIssued ==
    \/ \E r \in Requests : pc[r] # "tags_wait" /\ pc'[r] = "tags_wait"
    \/ health # "tags_wait" /\ health' = "tags_wait"
    \/ startup # "tags_wait" /\ startup' = "tags_wait"

\* The last successful refresh is younger than the time-to-live.
WithinTtl ==
    /\ ollama_cache_timestamp # <<>>
    /\ now - ollama_cache_timestamp[1] < OLLAMA_CACHE_TTL

\* C12: after a successful refresh, a lookup made while the cache
\* age is below the time-to-live issues no model-listing call, whatever the
\* listing returned (a listing with zero models included).
C12_NoListingCallWithinTtl ==
    [][ (WithinTtl /\ LookupStep) => ~ListingCallIssued ]_vars

\* The callers of get_ollama_models whose model-listing call is in flight.
ListingCallsInFlight ==
    { <<"request", r>> : r \in { q \in Requests : pc[q] = "tags_wait" } }
    \cup (IF health = "tags_wait" THEN { <<"health", 0>> } ELSE {})
    \cup (IF startup = "tags_wait" THEN { <<"startup", 0>> } ELSE {})

\* C13: concurrent catalog lookups are coalesced: once the time-to-live of
\* the cached entries has elapsed, at most one model-listing call is in flight
\* at any time, however many callers look the catalog up.
C13_OneListingCallInFlight ==
    (ollama_cache_timestamp # <<>> /\ ~WithinTtl)
    => Cardinality(ListingCallsInFlight) <= 1

\* The complete entry sets: the empty cache of the start, and for each
\* listing the dictionary built from the whole of it.
CompleteEntrySets == { <<>> } \cup { BuildModels(l) : l \in Listings }

\* C14: the swap from the old to the new catalog contents is atomic: under
\* any interleaving of startup, health checks and requests, whoever reads the
\* cache finds a complete entry set (the previous one or the new one), never
\* the entries of a part of a listing.
C14_CacheIsCompleteEntrySet ==
    ollama_models_cache \in CompleteEntrySets

\* The refresh of time 60 has replaced the cached entries by those of the
\* listing <<llama3:latest>> while a request's own listing call is in flight.
C14_Witness ==
    /\ ollama_cache_timestamp = <<OLLAMA_CACHE_TTL>>
    /\ ollama_models_cache = BuildModels(<<L3Latest>>)
    /\ \E r \in Requests : pc[r] = "tags_wait"

\* C15: in every reachable catalog state, for every key of the cache the
\* base name of the key (the part before its first ":") is a key as well.
C15_BaseNameOfEveryKeyIsKey ==
    \A k \in DOMAIN ollama_models_cache :
        SplitColon0(k) \in DOMAIN ollama_models_cache

\* The cache holds the tagged identifiers llama3:latest and llama3:8b.
C15_Witness ==
    /\ L3Latest \in DOMAIN ollama_models_cache
    /\ L38b \in DOMAIN ollama_models_cache

IsPrefix(s, t) == Len(s) <= Len(t) /\ SubSeq(t, 1, Len(s)) = s

RECURSIVE Flatten(_)
Flatten(ss) == IF ss = <<>> THEN <<>> ELSE Head(ss) \o Flatten(Tail(ss))

\* The cumulative texts the backend has sent so far: message.content of the
\* received events that carry one, in order.
ReceivedTexts ==
    LET HasContent(line) == line.kind = "object" /\ line.has_content
        with == SelectSeq(received, HasContent)
    IN  [ i \in 1..Len(with) |-> with[i].content ]

\* Each text the backend has sent extends the one before it.
Cumulative ==
    \A i \in 1..Len(ReceivedTexts) :
        IsPrefix(IF i = 1 THEN <<>> ELSE ReceivedTexts[i - 1], ReceivedTexts[i])

\* The content deltas the relay has emitted, in order.
EmittedDeltas ==
    LET Carries(e) == e.data = "chunk" /\ e.delta # <<>>
        with == SelectSeq(events, Carries)
    IN  [ i \in 1..Len(with) |-> with[i].delta ]

\* newText[len(previous):] for each text received, in order, the empty ones
\* left out.
ExpectedDeltas ==
    LET NonEmpty(d) == d # <<>>
        all == [ i \in 1..Len(ReceivedTexts) |->
                   SubSeq(ReceivedTexts[i],
                          (IF i = 1 THEN 0 ELSE Len(ReceivedTexts[i - 1])) + 1,
                          Len(ReceivedTexts[i])) ]
    IN  SelectSeq(all, NonEmpty)

\* C16: when each text of the backend's events extends the previous one, the
\* relay emits in order the deltas newText[len(previous):], and the
\* concatenation of the emitted deltas is the latest cumulative text.
C16_DeltasOfCumulativeText ==
    Cumulative
    => /\ EmittedDeltas = ExpectedDeltas
       /\ ReceivedTexts # <<>>
          => Flatten(EmittedDeltas) = ReceivedTexts[Len(ReceivedTexts)]

\* The backend has sent "H", "Hi", "Hi!" and the relay has emitted "H", "i",
\* "!".
C16_Witness ==
    /\ ReceivedTexts = << <<"H">>, <<"H", "i">>, <<"H", "i", "!">> >>
    /\ EmittedDeltas = << <<"H">>, <<"i">>, <<"!">> >>

\* The positions in events of the events that carry a finish reason, and of
\* the termination markers.
FinishEvents == { i \in 1..Len(events) : events[i].finish_reason # "null" }
Markers == { i \in 1..Len(events) : events[i] = DoneMarker }

\* C17: when the local backend has signalled completion, the relay has
\* emitted exactly one event that carries a finish reason, that event carries
\* the usage totals, it is immediately followed by the one termination
\* marker, and the marker is the last event.
C17_OneTerminalEventThenMarker ==
    relay = "completed"
    => /\ Cardinality(FinishEvents) = 1
       /\ Cardinality(Markers) = 1
       /\ \A i \in FinishEvents :
             /\ events[i].usage # <<>>
             /\ i + 1 \in Markers
             /\ i + 1 = Len(events)

\* C18: when the local backend's stream has ended or failed before an event
\* signalling completion, the relay has terminated with an error, and it has
\* emitted neither a usage event nor the termination marker.
C18_TruncatedStreamIsAnError ==
    relay \in {"exhausted", "raised"}
    => /\ relay = "raised"
       /\ Markers = {}
       /\ \A i \in 1..Len(events) : events[i].usage = <<>>

\* C19: a line that is not one JSON event object (an empty line, a text that
\* is not JSON, a JSON text that is not an object) is skipped: the step that
\* reads it leaves the relay's position, its accumulated text and its output
\* as they were, so that the later lines are processed as if it had not been
\* sent.
C19_BadLineIsSkipped ==
    [][ \A line \in StreamLines :
          (received' = Append(received, line) /\ line.kind # "object")
          => UNCHANGED << relay, full_content, events >>
      ]_vars

Streaming(r) == Started(r) /\ chat_request[r].stream

\* The positions in calls[r] of the calls made to a completion endpoint.
CompletionCalls(r) == CallsTo(r, "local") \cup CallsTo(r, "cloud")

\* C20: on the streaming path no fallback is attempted: a streaming request
\* calls at most one completion endpoint, the one of the backend resolved at
\* selection, and when that call fails it is the request's last call, the
\* request ends in failure and no fallback is recorded.
C20_NoFallbackWhenStreaming ==
    \A r \in Requests :
        Streaming(r)
        => /\ Cardinality(CompletionCalls(r)) <= 1
           /\ \A i \in 1..Len(metrics[r]) : metrics[r][i].metric # "FALLBACK_COUNT"
           /\ \A i \in CompletionCalls(r) :
                 /\ calls[r][i].to = selected_backend[r]
                 /\ FailedCall(calls[r][i])
                    => /\ i = Len(calls[r])
                       /\ pc[r] \in {"failed", "aborted"}

\* A streaming request resolved automatically to the cloud has failed on the
\* 503 of its cloud call, and no call to the local backend was made.
C20_Witness ==
    \E r \in Requests :
        /\ Streaming(r)
        /\ Override(r) = "auto"
        /\ selected_backend[r] = "cloud"
        /\ pc[r] = "failed"
        /\ \E i \in CallsTo(r, "cloud") : calls[r][i].resp.code = 503
        /\ CallsTo(r, "local") = {}

\* The lines the relay has forwarded to the caller, in order.
ForwardedLines == [ i \in 1..Len(events) |-> events[i][1] ]

\* C21: for a cloud streaming request answered with a success status, once
\* the relay has ended every line the provider streamed has been forwarded to
\* the caller, in order and unmodified.
C21_CloudLinesForwarded ==
    relay \in {"raised", "exhausted"} => ForwardedLines = upstream

\* The positions in the returned model list of the entries tagged
\* backend=local whose id is one of ids.
LocalEntries(ids) ==
    { i \in 1..Len(list_models.models) :
          /\ list_models.models[i].backend = "local"
          /\ list_models.models[i].id \in ids }

\* C22: when the catalog holds the keys "llama3" and "llama3:latest", the
\* model list returned for the filter all or local contains exactly one entry
\* tagged backend=local for that model, and its id is the base name "llama3".
C22_OneLocalEntryPerBaseName ==
    ( /\ list_models.pc = "returned"
      /\ list_models.backend \in {"all", "local"}
      /\ {SplitColon0(L3Latest), L3Latest} \subseteq DOMAIN ollama_models_cache )
    => /\ Cardinality(LocalEntries({SplitColon0(L3Latest), L3Latest})) = 1
       /\ LocalEntries({SplitColon0(L3Latest)}) # {}

\* C23: the health endpoint reports the local backend as unavailable when the
\* model-listing call made for the check failed (non-200 status or transport
\* fault), and the cloud backend as configured iff a credential is set.
C23_HealthReportsReachability ==
    health_response # NoHealthResponse
    => /\ health_response.probe = "failed" => health_response.ollama = "unavailable"
       /\ health_response.openrouter = "configured" <=> OPENROUTER_API_KEY

\* The positions in metrics[r] of the error-outcome samples.
ErrorOutcomes(r) ==
    { i \in 1..Len(metrics[r]) :
          metrics[r][i].metric = "REQUEST_COUNT" /\ metrics[r][i].label = "error" }

\* C24: whenever a non-streaming request has failed (upstream non-success
\* status, transport fault or configuration error), exactly one error-outcome
\* metric has been emitted for it, and when an upstream call answered a
\* non-success status the error returned carries that status and body.
C24_FailureCountedAndPassedOn ==
    \A r \in Requests :
        (NonStreaming(r) /\ pc[r] = "failed")
        => /\ Cardinality(ErrorOutcomes(r)) = 1
           /\ \A i \in CompletionCalls(r) :
                 NonSuccess(calls[r][i].resp)
                 => outcome[r] = HttpError(calls[r][i].resp.code, calls[r][i].resp.text, <<>>)

\* C25: in every response constructed for the local backend, the single-shot
\* response and the usage event of a stream, total_tokens equals
\* prompt_tokens + completion_tokens, each counter being the upstream's, or 0
\* when the upstream omitted it.
C25_TotalIsSumOfCounts ==
    LET prompt == Get(translated.arg, "prompt_eval_count", 0)
        completion == Get(translated.arg, "eval_count", 0)
    IN  /\ translated.fn = "transform_ollama_response"
           => /\ translated.result.usage.prompt_tokens = prompt
              /\ translated.result.usage.completion_tokens = completion
              /\ translated.result.usage.total_tokens = prompt + completion
        /\ translated.fn = "usage_chunk"
           => translated.result.usage = << prompt, completion, prompt + completion >>

\* A response has been built from an answer that carries eval_count 3 and
\* omits prompt_eval_count: its total is 3.
C25_Witness ==
    /\ translated.fn = "transform_ollama_response"
    /\ "prompt_eval_count" \notin DOMAIN translated.arg
    /\ Get(translated.arg, "eval_count", 0) = 3
    /\ translated.result.usage.total_tokens = 3

\* C27: translating a request into the local runtime's form preserves the
\* messages, as many as the request has, in the same order, each with its
\* role and content verbatim, and preserves the streaming flag.
C27_TranslationKeepsMessages ==
    translated.fn = "transform_ollama_request"
    => LET req == translated.arg
           data == translated.result
       IN  /\ Len(data["messages"]) = Len(req.messages)
           /\ \A i \in 1..Len(req.messages) :
                /\ data["messages"][i]["role"] = req.messages[i].role
                /\ data["messages"][i]["content"] = req.messages[i].content
                /\ DOMAIN data["messages"][i] = {"role", "content"}
           /\ data["stream"] = req.stream

\* A streaming request of two different messages, under a tagged model
\* identifier, has been translated.
C27_Witness ==
    /\ translated.fn = "transform_ollama_request"
    /\ Len(translated.arg.messages) = 2
    /\ translated.arg.messages[1] # translated.arg.messages[2]
    /\ translated.arg.stream
    /\ translated.result["model"] # translated.arg.model
    /\ Len(translated.result["messages"]) = 2

ResolvedBackends == {"local", "cloud"}

\* C26: a completion call is made only once selected_backend is Local or
\* Cloud and the selection metric has been recorded; every sample recorded
\* for a request names Local or Cloud, never Auto, and the latency and outcome
\* samples name the backend the handler ended with.
C26_AutoIsResolvedBeforeUse ==
    \A r \in Requests :
        /\ CompletionCalls(r) # {}
           => /\ selected_backend[r] \in ResolvedBackends
              /\ metrics[r] # <<>>
              /\ metrics[r][1].metric = "BACKEND_SELECTION"
        /\ \A i \in 1..Len(metrics[r]) :
             /\ metrics[r][i].backend \in ResolvedBackends
             /\ metrics[r][i].metric \in {"REQUEST_DURATION", "REQUEST_COUNT"}
                => metrics[r][i].backend = selected_backend[r]
        /\ pc[r] \in Terminal => selected_backend[r] \in ResolvedBackends

\* A request made under Auto has called a completion endpoint and has its
\* outcome sample recorded.
C26_Witness ==
    \E r \in Requests :
        /\ Override(r) = "auto"
        /\ CompletionCalls(r) # {}
        /\ \E i \in 1..Len(metrics[r]) : metrics[r][i].metric = "REQUEST_COUNT"

\* The texts the backend has sent are fragments: none is empty and none
\* extends the text of the event before it.
Fragments ==
    \A i \in 1..Len(ReceivedTexts) :
        /\ ReceivedTexts[i] # <<>>
        /\ i > 1 => ~IsPrefix(ReceivedTexts[i - 1], ReceivedTexts[i])

\* C28: when the backend's events carry fragments, each holding only the
\* newly generated text, the concatenation of the emitted deltas is the
\* concatenation of the fragments.
C28_FragmentsAreReconstructed ==
    Fragments => Flatten(EmittedDeltas) = Flatten(ReceivedTexts)

\* The positions in metrics[r] of the selection samples.
SelectionSamples(r) ==
    { i \in 1..Len(metrics[r]) : metrics[r][i].metric = "BACKEND_SELECTION" }

\* C29: while a request is handled the catalog is consulted at most once and
\* one selection is recorded; once the selection is made, no step of the
\* handler (a failed backend call included) changes the selected backend,
\* consults the catalog again or records another selection.
C29_SelectionMadeOnce ==
    [][ \A r \in Requests :
          /\ lookups'[r] <= 1
          /\ Cardinality(CallsTo(r, "tags")') <= 1
          /\ Cardinality(SelectionSamples(r)') <= 1
          /\ (pc[r] \notin {"idle", "tags_wait"} /\ pc'[r] # "idle")
             => /\ selected_backend'[r] = selected_backend[r]
                /\ lookups'[r] = lookups[r]
                /\ CallsTo(r, "tags")' = CallsTo(r, "tags")
                /\ Cardinality(SelectionSamples(r)) = 1
                /\ SelectionSamples(r)' = SelectionSamples(r) ]_vars

\* A request under Auto was resolved after one listing call, and its cloud
\* call has failed with status 503.
C29_Witness ==
    \E r \in Requests :
        /\ Override(r) = "auto"
        /\ pc[r] = "failed"
        /\ lookups[r] = 1
        /\ Cardinality(CallsTo(r, "tags")) = 1
        /\ Cardinality(SelectionSamples(r)) = 1
        /\ \E i \in CallsTo(r, "cloud") : calls[r][i].resp.code = 503

\* The full names and the base names of the models of a listing.
ListingKeys(listing) ==
    { listing[i] : i \in 1..Len(listing) }
    \cup { SplitColon0(listing[i]) : i \in 1..Len(listing) }

\* A step in which get_ollama_models resumes with the answer resp of its
\* listing call, whoever called it.
RefreshStep(resp) ==
    \/ StartupTagsResponse(resp)
    \/ HealthTagsResponse(resp)
    \/ \E r \in Requests : TagsResponse(r, resp)

\* C30: a refresh answered with status 200 leaves as the cache's key set
\* exactly the full names and base names of that listing; an identifier that
\* only the previous cache held is no longer a key, and resolves to Cloud
\* unless the new listing still holds its base name.
C30_RefreshReplacesKeySet ==
    [][ \A resp \in TagsResponses :
          (IsOk(resp) /\ RefreshStep(resp))
          => LET keys == ListingKeys(resp.listing)
             IN  /\ DOMAIN ollama_models_cache' = keys
                 /\ \A k \in DOMAIN ollama_models_cache \ keys :
                      /\ k \notin DOMAIN ollama_models_cache'
                      /\ SplitColon0(k) \notin keys
                         => DetectModelBackend(k, DOMAIN ollama_models_cache') = "cloud" ]_vars

\* A request for llama3:8b was resolved to Local from the catalog, and the
\* refresh of time 60, answered with a listing of no model, has emptied the
\* cache since.
C30_Witness ==
    /\ ollama_cache_timestamp = <<OLLAMA_CACHE_TTL>>
    /\ ollama_models_cache = <<>>
    /\ \E r \in Requests :
         /\ Override(r) = "auto"
         /\ chat_request[r].model = L38b
         /\ selected_backend[r] = "local"

\* The positions in a listing of the models whose base name is b.
SharingBase(listing, b) == { i \in 1..Len(listing) : SplitColon0(listing[i]) = b }

Last(S) == CHOOSE i \in S : \A j \in S : j <= i

\* C31: after a refresh, the base-name key of every listed model maps to the
\* descriptor of the last listed model with that base name, and the full-name
\* key of every listed model maps to the descriptor of that model.
C31_BaseKeyLastFullKeyOwn ==
    catalog_build.built
    => LET listing == catalog_build.listing
       IN  \A i \in 1..Len(listing) :
             /\ ollama_models_cache[SplitColon0(listing[i])]
                  = [name |-> listing[Last(SharingBase(listing, SplitColon0(listing[i])))]]
             /\ ollama_models_cache[listing[i]] = [name |-> listing[i]]

\* The text of a line that the caller has not been sent yet: what follows the
\* first Len(full_content) characters of its message.content.
NewText(line) ==
    IF line.kind = "object" /\ line.has_content /\ Len(line.content) > Len(full_content)
    THEN SubSeq(line.content, Len(full_content) + 1, Len(line.content))
    ELSE <<>>

\* C32: the relay yields events for a line of the backend only if the line
\* is a JSON object with a non-empty content delta or with done set; a line
\* with an empty delta and done false yields nothing.
C32_OnlyDeltaOrDoneIsForwarded ==
    [][ Len(received') = Len(received) + 1
        => LET line == received'[Len(received')]
           IN  /\ events' # events
                  => line.kind = "object" /\ (NewText(line) # <<>> \/ line.done)
               /\ (NewText(line) = <<>> /\ ~line.done) => events' = events ]_vars

\* The backend has sent the text "H" twice; the relay has yielded one event,
\* for the first line, and nothing for the second.
C32_Witness ==
    /\ Len(received) = 2
    /\ received[1] = Line("object", TRUE, <<"H">>, FALSE, 0, 0)
    /\ received[2] = received[1]
    /\ Len(events) = 1
    /\ relay = "streaming"

\* The backend whose answer the caller of request r has received.
Producer(r) == IF outcome[r].data.src = "ollama" THEN "local" ELSE "cloud"

\* The positions in metrics[r] of the samples of metric m with label l,
\* whatever backend they name.
SamplesOf(r, m, l) ==
    { i \in 1..Len(metrics[r]) : metrics[r][i].metric = m /\ metrics[r][i].label = l }

OptionsOf(data) == IF "options" \in DOMAIN data THEN data["options"] ELSE <<>>

\* Option name holds the value of the request's parameter iff the parameter
\* is present.
Carried(opts, name, parameter) ==
    /\ name \in DOMAIN opts <=> parameter # <<>>
    /\ parameter # <<>> => opts[name] = parameter[1]

\* C34: the options object of the local form holds temperature, num_predict
\* (from max_tokens) and top_p, each iff the request has the parameter and
\* with its value; no options object is sent when the request has none of
\* the three, and the penalties appear nowhere in the local form.
C34_OptionsCarryPresentParameters ==
    translated.fn = "transform_ollama_request"
    => LET req == translated.arg
           data == translated.result
           opts == OptionsOf(data)
       IN  /\ Carried(opts, "temperature", req.temperature)
           /\ Carried(opts, "num_predict", req.max_tokens)
           /\ Carried(opts, "top_p", req.top_p)
           /\ "options" \in DOMAIN data
                <=> (req.temperature # <<>> \/ req.max_tokens # <<>> \/ req.top_p # <<>>)
           /\ DOMAIN opts \subseteq {"temperature", "num_predict", "top_p"}
           /\ DOMAIN data \subseteq {"model", "messages", "stream", "options"}

\* A request with temperature 0, no max_tokens, top_p set and both
\* penalties set has been translated: options holds temperature 0 and top_p.
C34_Witness ==
    /\ translated.fn = "transform_ollama_request"
    /\ translated.arg.temperature = <<0>>
    /\ translated.arg.max_tokens = <<>>
    /\ translated.arg.frequency_penalty # <<>>
    /\ translated.arg.presence_penalty # <<>>
    /\ DOMAIN OptionsOf(translated.result) = {"temperature", "top_p"}
    /\ OptionsOf(translated.result)["temperature"] = 0

\* C35: under any interleaving of the handlers between startup and shutdown
\* at most one client instance has been created, and every backend call of
\* every handler was made with that instance, which is not closed while the
\* service runs.
C35_OneSharedClient ==
    /\ callers.created <= 1
    /\ \A h \in DOMAIN callers.handlers :
         \A i \in 1..Len(callers.handlers[h].used) :
            /\ http_client # <<>>
            /\ callers.handlers[h].used[i] = http_client[1]
    /\ callers.lifespan = "running" => http_client # <<>> /\ http_client[1] \notin callers.closed

\* Two handlers have backend calls in flight at once and a third has made
\* its two calls, all with the one instance created at startup.
C35_Witness ==
    /\ callers.lifespan = "running"
    /\ callers.created = 1
    /\ callers.handlers[1].pc = "awaiting"
    /\ callers.handlers[2].pc = "awaiting"
    /\ callers.handlers[3].used = << 1, 1 >>

\* C36: in the standalone cloud proxy, when the provider answers a chat
\* completion with a status other than 200, the caller receives an error
\* with that status code and that response body.
C36_ProxySurfacesProviderError ==
    \A h \in DOMAIN proxy :
        (proxy[h].pc = "returned" /\ proxy[h].resp.kind = "status" /\ proxy[h].resp.code # 200)
        => /\ proxy[h].outcome.kind = "error"
           /\ proxy[h].outcome.status = proxy[h].resp.code
           /\ proxy[h].outcome.detail = proxy[h].resp.text

\* The positions of a handler's request-counter samples.
ProxyCounts(h) ==
    { i \in 1..Len(proxy[h].metrics) : proxy[h].metrics[i].metric = "REQUEST_COUNT" }

\* C37: in the standalone cloud proxy, a chat completion request that has
\* been answered has incremented the request counter once: with the upstream
\* status code as status label, or with "error" when no upstream response was
\* obtained.
C37_ProxyCountsRequestOnce ==
    \A h \in DOMAIN proxy :
        proxy[h].pc = "returned"
        => /\ Cardinality(ProxyCounts(h)) = 1
           /\ \A i \in ProxyCounts(h) :
                proxy[h].metrics[i].status
                  = IF proxy[h].resp.kind = "status" THEN proxy[h].resp.code ELSE "error"

\* C38: an operation of the retrieval tool that was invoked with an event
\* emitter and has returned has emitted the initial status event with done
\* false and, after it, a status event with done true, and has returned a
\* string, whatever the HTTP exchange ended with.
C38_StatusIsClosedOnEveryOutcome ==
    (tool.pc = "returned" /\ tool.emitter)
    => /\ tool.events # <<>>
       /\ ~tool.events[1].done
       /\ \E i \in 2..Len(tool.events) : tool.events[i].done
       /\ tool.result # <<>>
       /\ tool.result[1].kind = "string"

\* The positions of the download samples counted during the current call.
DownloadSamples(m) ==
    { i \in 1..Len(m.metrics) : m.metrics[i].metric = "MODEL_DOWNLOADS" }

\* The pull call of the download answered 200 and its stream was read to the
\* end.
Pulled(m) == m.pull_status = 200 /\ m.stream_ended

\* C39: download_ollama_model changes the registry or the registry file only
\* in a call whose pull answered 200 and whose progress stream was consumed
\* to the end, and then adds the entry (type ollama, status downloaded) of
\* the model; a call that ends otherwise leaves both unchanged and returns
\* False; every call has counted one download sample when it returns,
\* success for True and error for False.
C39_RegistryOnlyAfterFullPull ==
    [][ /\ (manager'.model_registry # manager.model_registry
            \/ manager'.registry_file # manager.registry_file)
           => /\ Pulled(manager')
              /\ manager'.model_registry
                   = Registered(manager.model_registry, manager.model_name)
        /\ (manager.pc # "returned" /\ manager'.pc = "returned")
           => /\ Cardinality(DownloadSamples(manager')) = 1
              /\ IF Pulled(manager')
                 THEN /\ manager'.returned = << TRUE >>
                      /\ manager'.metrics = << DownloadSample("success") >>
                      /\ manager'.model_name \in DOMAIN manager'.model_registry
                      /\ manager'.model_registry[manager'.model_name] = RegistryEntry
                 ELSE /\ manager'.returned = << FALSE >>
                      /\ manager'.metrics = << DownloadSample("error") >>
                      /\ manager'.model_registry = manager.model_registry
                      /\ manager'.registry_file = manager.registry_file ]_vars

\* After a download that registered and saved a model, the download of
\* another model was answered 200 and failed while its stream was read: it
\* returned False and the registry holds the first model only.
C39_Witness ==
    /\ manager.pc = "returned"
    /\ manager.returned = << FALSE >>
    /\ manager.pull_status = 200
    /\ manager.lines = MaxPullLines
    /\ DOMAIN manager.model_registry = { L3Latest }
    /\ manager.registry_file = manager.model_registry
    /\ manager.model_name = Mistral7b

====
